---- MODULE Spec2Model ----
(***************************************************************************)
(* A model of egami's dcm2nii converter (src/src/dcm2nii/dcm2nii.ts):      *)
(* grouping of DICOM files into series, manual assembly of a series into   *)
(* one multiframe dataset, and encoding of the NIFTI-1 header and payload. *)
(* Each part has its own specification (SpecGroup, SpecAsm, SpecHdr) over   *)
(* its own variables; the variables of the other parts stay at their       *)
(* initial value. SpecPng models the nii2png converter                     *)
(* (src/unnamed/part_003), SpecWin the window computation of dcm2png       *)
(* (src/src/dcm2png/dcm2png.ts), SpecRun the order in which an invocation  *)
(* of dcm2nii, nii2png or dcm2png builds its output and writes it, and     *)
(* SpecDcm the choice of file and frame in dcm2png.                        *)
(***************************************************************************)
EXTENDS Integers, Sequences, FiniteSets, TLC

VARIABLES
  pc,          \* position of the operation under study
  dir,         \* SpecGroup: the directory, file name -> entry
  seriesList,  \* SpecGroup: the value returned by groupDicomFilesBySeries
  datasets,    \* SpecAsm: the parsed datasets of one series, in series order
  asmOut,      \* SpecAsm: outcome of converting that series
  multiframe,  \* SpecHdr: the dataset handed to createNiftiFromMultiframe
  niftiOut,    \* SpecHdr: outcome of createNiftiFromMultiframe
  nii,         \* SpecPng: the parsed NIFTI file and the options of nii2png
  png,         \* SpecPng: outcome of nii2png
  testRender,  \* SpecWin: the pixels of the test rendering of a DICOM image
  window,      \* SpecWin: outcome of calculateOptimalWindowLevel
  run,         \* SpecRun: the state of one invocation of a converter
  fs,          \* SpecRun: the output files and the writes made to them
  dcmIn,       \* SpecDcm: the input and the slice option of dcm2png
  dcmOut       \* SpecDcm: outcome of dcm2png

pngVars == <<nii, png>>
winVars == <<testRender, window>>
runVars == <<run, fs>>
dcmVars == <<dcmIn, dcmOut>>

vars ==
  <<pc, dir, seriesList, datasets, asmOut, multiframe, niftiOut, pngVars, winVars,
    runVars, dcmVars>>

(***************************************************************************)
(* Bounds                                                                  *)
(***************************************************************************)
MaxFiles == 3      \* entries in the input directory
MaxInstance == 2   \* largest InstanceNumber a file carries

(***************************************************************************)
(* Generic helpers                                                         *)
(***************************************************************************)
Range(s) == {s[i] : i \in 1..Len(s)}

Min2(a, b) == IF a < b THEN a ELSE b

(***************************************************************************)
(* SeriesGrouper: getDicomFilesFromDirectory and groupDicomFilesBySeries   *)
(*                                                                         *)
(* A file name is a number; the order of the numbers is the order          *)
(* Array.prototype.sort() and localeCompare give the names.                *)
(* An entry of the directory is a record                                   *)
(*   isDicom   it is a regular file with extension .dcm, .dicom or none    *)
(*   readable  readFileSync and DicomMessage.readFile succeed on it        *)
(*   uid       its SeriesInstanceUID, "" when the tag is absent or empty   *)
(*   hasInst   it carries an InstanceNumber                                *)
(*   inst      that InstanceNumber (0 when absent)                         *)
(***************************************************************************)
SeriesUIDs == {"A", "B"}

NotDicomEntry == [isDicom |-> FALSE, readable |-> FALSE, uid |-> "", hasInst |-> FALSE, inst |-> 0]

UnreadableEntry == [isDicom |-> TRUE, readable |-> FALSE, uid |-> "", hasInst |-> FALSE, inst |-> 0]

ReadableEntries ==
  { [isDicom |-> TRUE, readable |-> TRUE, uid |-> u, hasInst |-> h, inst |-> n] :
      u \in SeriesUIDs \cup {""}, h \in BOOLEAN, n \in 0..MaxInstance }

\* an absent InstanceNumber has no value: keep one representative
Entries ==
  {NotDicomEntry, UnreadableEntry} \cup {e \in ReadableEntries : e.hasInst \/ e.inst = 0}

Directories == UNION { [1..n -> Entries] : n \in 0..MaxFiles }

\* Ascending sequence of the elements of a finite set of numbers
RECURSIVE SortedSeqOf(_)
SortedSeqOf(S) ==
  IF S = {} THEN <<>>
  ELSE LET m == CHOOSE x \in S : \A y \in S : x <= y
       IN <<m>> \o SortedSeqOf(S \ {m})

\* readdirSync, the isFile/isDicomFile filter, and .sort()
getDicomFilesFromDirectory(d) ==
  SortedSeqOf({f \in DOMAIN d : d[f].isDicom})

\* (dataset.InstanceNumber as number) || 0
InstanceOrZero(d, f) == IF d[f].hasInst THEN d[f].inst ELSE 0

\* A mutant of the comparator: descending InstanceNumber
sortCompareDescending(d, a, b) ==
  IF d[a].readable /\ d[b].readable
    THEN InstanceOrZero(d, b) - InstanceOrZero(d, a)
    ELSE a - b

\* The comparator handed to series.files.sort: negative when a goes first.
\* A read that throws falls back to comparing the base names.
sortCompare(d, a, b) ==
  IF d[a].readable /\ d[b].readable
    THEN InstanceOrZero(d, a) - InstanceOrZero(d, b)
    ELSE a - b

\* Array.prototype.sort is stable: insert x after the last element that
\* does not compare greater than x
RECURSIVE InsertSorted(_, _, _)
InsertSorted(d, s, x) ==
  IF s = <<>> THEN <<x>>
  ELSE IF sortCompare(d, s[Len(s)], x) <= 0 THEN Append(s, x)
  ELSE Append(InsertSorted(d, SubSeq(s, 1, Len(s) - 1), x), s[Len(s)])

RECURSIVE SortFiles(_, _)
SortFiles(d, s) ==
  IF s = <<>> THEN <<>>
  ELSE InsertSorted(d, SortFiles(d, SubSeq(s, 1, Len(s) - 1)), s[Len(s)])

\* seriesMap is a Map: a sequence of series in insertion order
HasSeries(seriesMap, u) == \E i \in 1..Len(seriesMap) : seriesMap[i].seriesInstanceUID = u

NewSeries(u) == [seriesInstanceUID |-> u, files |-> <<>>]

PushFile(seriesMap, u, f) ==
  [i \in 1..Len(seriesMap) |->
     IF seriesMap[i].seriesInstanceUID = u
       THEN [seriesMap[i] EXCEPT !.files = Append(@, f)]
       ELSE seriesMap[i]]

\* A mutant of seriesMap.set: the new series goes to the front of the map
mapSetAtFront(seriesMap, u) ==
  IF HasSeries(seriesMap, u) THEN seriesMap ELSE <<NewSeries(u)>> \o seriesMap

\* if (!seriesMap.has(uid)) seriesMap.set(uid, {...})
mapSetIfAbsent(seriesMap, u) ==
  IF HasSeries(seriesMap, u) THEN seriesMap ELSE Append(seriesMap, NewSeries(u))

\* A mutant of the loop body: a file without SeriesInstanceUID is grouped
\* under the empty identity instead of being skipped
groupOneFileKeepingAll(d, seriesMap, f) ==
  IF ~d[f].readable THEN seriesMap
  ELSE PushFile(mapSetIfAbsent(seriesMap, d[f].uid), d[f].uid, f)

\* One iteration of the first loop of groupDicomFilesBySeries
groupOneFile(d, seriesMap, f) ==
  IF ~d[f].readable THEN seriesMap            \* catch: warn, next file
  ELSE IF d[f].uid = "" THEN seriesMap        \* warn, continue
  ELSE PushFile(mapSetIfAbsent(seriesMap, d[f].uid), d[f].uid, f)

RECURSIVE groupLoop(_, _, _)
groupLoop(d, seriesMap, files) ==
  IF files = <<>> THEN seriesMap
  ELSE groupLoop(d, groupOneFile(d, seriesMap, Head(files)), Tail(files))

groupDicomFilesBySeries(d, dicomFiles) ==
  LET seriesMap == groupLoop(d, <<>>, dicomFiles)
  IN [i \in 1..Len(seriesMap) |->
        [seriesMap[i] EXCEPT !.files = SortFiles(d, @)]]

(***************************************************************************)
(* SpecGroup: a directory is listed and grouped                            *)
(***************************************************************************)
NoDatasets == <<>>
NoOutcome == [status |-> "none"]

\* the parts that a specification does not exercise stay idle
IdlePng == nii = NoOutcome /\ png = NoOutcome
IdleWin == testRender = <<>> /\ window = NoOutcome
IdleRun == run = NoOutcome /\ fs = NoOutcome
IdleDcm == dcmIn = NoOutcome /\ dcmOut = NoOutcome

InitGroup ==
  /\ pc = "group"
  /\ dir \in Directories
  /\ seriesList = <<>>
  /\ datasets = NoDatasets
  /\ asmOut = NoOutcome
  /\ multiframe = NoOutcome
  /\ niftiOut = NoOutcome
  /\ IdlePng
  /\ IdleWin
  /\ IdleRun
  /\ IdleDcm

Group ==
  /\ pc = "group"
  /\ seriesList' = groupDicomFilesBySeries(dir, getDicomFilesFromDirectory(dir))
  /\ pc' = "grouped"
  /\ UNCHANGED <<dir, datasets, asmOut, multiframe, niftiOut, pngVars, winVars, runVars, dcmVars>>

NextGroup == Group

SpecGroup == InitGroup /\ [][NextGroup]_vars

(***************************************************************************)
(* Claims on SeriesGrouper, checked under SpecGroup                        *)
(***************************************************************************)
Grouped == pc = "grouped"

DicomFiles == getDicomFilesFromDirectory(dir)

\* the file is readable and carries a non-empty SeriesInstanceUID
Kept(f) == dir[f].readable /\ dir[f].uid # ""

Occurrences(s, x) == Cardinality({i \in 1..Len(s) : s[i] = x})

SeriesHolding(f) == {i \in 1..Len(seriesList) : f \in Range(seriesList[i].files)}

AllHaveInstance(series) == \A f \in Range(series.files) : dir[f].hasInst

AscendingByName(s) == \A j \in 1..(Len(s) - 1) : s[j] < s[j + 1]

\* C1: grouping partitions the input by series identity. Every readable file
\* with a non-empty SeriesInstanceUID is in exactly one returned series, once,
\* and that series is the one with its UID; a file without SeriesInstanceUID
\* or an unreadable file is in no series, and the files after it are still
\* grouped; no two returned series share a UID.
C1_PartitionBySeries ==
  Grouped =>
    /\ \A f \in Range(DicomFiles) :
         IF Kept(f)
           THEN \E i \in 1..Len(seriesList) :
                  /\ SeriesHolding(f) = {i}
                  /\ seriesList[i].seriesInstanceUID = dir[f].uid
                  /\ Occurrences(seriesList[i].files, f) = 1
           ELSE SeriesHolding(f) = {}
    /\ \A i \in 1..Len(seriesList) : Range(seriesList[i].files) \subseteq Range(DicomFiles)
    /\ \A i, j \in 1..Len(seriesList) :
         i # j => seriesList[i].seriesInstanceUID # seriesList[j].seriesInstanceUID

\* C1 witness: an unreadable file and a file without SeriesInstanceUID were
\* dropped, and a file listed after both of them was grouped
C1_Witness ==
  /\ Grouped
  /\ \E f, g, h \in Range(DicomFiles) :
       /\ f < h /\ g < h
       /\ ~dir[f].readable
       /\ dir[g].readable /\ dir[g].uid = ""
       /\ Kept(h) /\ SeriesHolding(h) # {}

\* C2: in a returned series whose files all carry an InstanceNumber the files
\* are in ascending InstanceNumber order
C2_InstanceNumberOrder ==
  Grouped =>
    \A i \in 1..Len(seriesList) :
      AllHaveInstance(seriesList[i]) =>
        \A j \in 1..(Len(seriesList[i].files) - 1) :
          dir[seriesList[i].files[j]].inst <= dir[seriesList[i].files[j + 1]].inst

\* C2 witness: a series of three files that all carry an InstanceNumber and
\* whose InstanceNumber order is not the file name order
C2_Witness ==
  /\ Grouped
  /\ \E i \in 1..Len(seriesList) :
       /\ AllHaveInstance(seriesList[i])
       /\ Len(seriesList[i].files) = 3
       /\ ~AscendingByName(seriesList[i].files)
       /\ dir[seriesList[i].files[1]].inst < dir[seriesList[i].files[3]].inst

\* C3, as stated: a returned series in which some file lacks an
\* InstanceNumber is ordered by file name throughout
C3_FilenameOrderWhenInstanceMissing ==
  Grouped =>
    \A i \in 1..Len(seriesList) :
      ~AllHaveInstance(seriesList[i]) => AscendingByName(seriesList[i].files)

\* position in the input list of the first kept file of series u
FirstEncounter(u) ==
  CHOOSE k \in 1..Len(DicomFiles) :
    /\ Kept(DicomFiles[k]) /\ dir[DicomFiles[k]].uid = u
    /\ \A m \in 1..(k - 1) : ~(Kept(DicomFiles[m]) /\ dir[DicomFiles[m]].uid = u)

\* C4: the returned series are in the order in which their SeriesInstanceUID
\* is first met in the input list
C4_FirstEncounterOrder ==
  Grouped =>
    \A i, j \in 1..Len(seriesList) :
      i < j => FirstEncounter(seriesList[i].seriesInstanceUID)
                 < FirstEncounter(seriesList[j].seriesInstanceUID)

\* C4 witness: two series, and sorting moved to the head of the first series
\* a file that comes after the head of the second series in the input
C4_Witness ==
  /\ Grouped
  /\ Len(seriesList) = 2
  /\ Len(seriesList[1].files) >= 2
  /\ seriesList[1].files[1] > seriesList[2].files[1]

(***************************************************************************)
(* Byte encodings used by writeNiftiHeader (Buffer.write*LE)               *)
(*                                                                         *)
(* A buffer is a sequence of bytes; byte offset o is element o + 1.        *)
(* Numbers that may be absent (undefined) are modelled as 0, which the     *)
(* code treats the same way (x || default).                                *)
(***************************************************************************)
\* A mutant of Buffer.alloc and buffer.fill(0): the memory keeps what it held
ZerosUninitialised(n) == [i \in 1..n |-> 170]

Zeros(n) == [i \in 1..n |-> 0]

\* x || dflt, for a number x
OrDefault(x, dflt) == IF x = 0 THEN dflt ELSE x

UInt8(v) == <<v % 256>>

\* A mutant of writeInt16LE: the high byte first
Int16BE(v) == LET u == v % 65536 IN <<u \div 256, u % 256>>

\* two's complement, little endian
Int16LE(v) == LET u == v % 65536 IN <<u % 256, u \div 256>>

UInt32LE(u) ==
  <<u % 256, (u \div 256) % 256, (u \div 65536) % 256, (u \div 16777216) % 256>>

\* writeInt32LE of a value >= 0
Int32LE(v) == UInt32LE(v)

PowersOfTwo ==
  <<1, 2, 4, 8, 16, 32, 64, 128, 256, 512, 1024, 2048, 4096, 8192, 16384, 32768,
    65536, 131072, 262144, 524288, 1048576, 2097152, 4194304, 8388608>>

Pow2(n) == PowersOfTwo[n + 1]

\* floor(log2(n)) for n >= 1
RECURSIVE Log2(_)
Log2(n) == IF n < 2 THEN 0 ELSE 1 + Log2(n \div 2)

\* IEEE-754 binary32 bit pattern of an integer n >= 0: the exponent e + 127
\* above the 23 fraction bits of n / 2^e - 1; from 2^24 on the fraction is
\* rounded to the nearest, ties to even
Float32Bits(n) ==
  IF n = 0 THEN 0
  ELSE LET e == Log2(n)
       IN IF e <= 23
            THEN (e + 126) * 8388608 + n * Pow2(23 - e)
            ELSE LET ulp == Pow2(e - 23)
                     q == n \div ulp
                     rest == n % ulp
                     up == 2 * rest > ulp \/ (2 * rest = ulp /\ q % 2 = 1)
                 IN (e + 126) * 8388608 + (IF up THEN q + 1 ELSE q)

FloatLE(n) == UInt32LE(Float32Bits(n))

\* buffer.write*(value, offset) and buffer.fill: overwrite, never grow
WriteAt(buffer, offset, bytes) ==
  SubSeq(buffer, 1, offset) \o bytes
    \o SubSeq(buffer, offset + Len(bytes) + 1, Len(buffer))

RECURSIVE Flatten(_)
Flatten(ss) == IF ss = <<>> THEN <<>> ELSE Head(ss) \o Flatten(Tail(ss))

(***************************************************************************)
(* VolumetricHeaderCodec: writeNiftiHeader                                 *)
(***************************************************************************)
SizeofHdr == 348
Extents == 16384
TYPE_INT16 == 4
HeaderSize == 352

\* "Created by egami dcm2nii" and "n+1\0" in ASCII
DescripText ==
  <<67, 114, 101, 97, 116, 101, 100, 32, 98, 121, 32, 101, 103, 97, 109, 105,
    32, 100, 99, 109, 50, 110, 105, 105>>

MagicText == <<110, 43, 49, 0>>

RegularChar == <<114>>

\* A mutant of the offset bookkeeping: the offset advances by the number of
\* bytes written instead of the field width
StepAdvancingByLength(bytes, advance) == [bytes |-> bytes, advance |-> Len(bytes)]

\* One write and the statement "offset += advance" that follows it
Step(bytes, advance) == [bytes |-> bytes, advance |-> advance]

\* The writes of writeNiftiHeader in program order: the bytes written at the
\* running offset and the amount the offset is advanced by afterwards
HeaderSteps(header) ==
  << Step(Int32LE(SizeofHdr), 4),                    \* sizeof_hdr
     Step(Zeros(10), 10),                            \* data_type
     Step(Zeros(18), 18),                            \* db_name
     Step(Int32LE(Extents), 4),                      \* extents
     Step(Int16LE(0), 2),                            \* session_error
     Step(RegularChar, 1),                           \* regular
     Step(UInt8(header.dim_info), 1) >>              \* dim_info
  \o [i \in 1..8 |-> Step(Int16LE(OrDefault(header.dim[i], 0)), 2)]
  \o << Step(FloatLE(header.intent_p1), 4),
        Step(FloatLE(header.intent_p2), 4),
        Step(FloatLE(header.intent_p3), 4),
        Step(Int16LE(header.intent_code), 2),
        Step(Int16LE(header.datatype), 2),
        Step(Int16LE(header.bitpix), 2),
        Step(Int16LE(header.slice_start), 2) >>
  \o [i \in 1..8 |-> Step(FloatLE(OrDefault(header.pixdim[i], 0)), 4)]
  \o << Step(FloatLE(header.vox_offset), 4),
        Step(FloatLE(header.scl_slope), 4),
        Step(FloatLE(header.scl_inter), 4),
        Step(Int16LE(header.slice_end), 2),
        Step(UInt8(header.slice_code), 1),
        Step(UInt8(header.xyzt_units), 1),
        Step(FloatLE(header.cal_max), 4),
        Step(FloatLE(header.cal_min), 4),
        Step(FloatLE(0), 4),                         \* slice_duration
        Step(FloatLE(0), 4),                         \* toffset
        Step(Int32LE(0), 4),                         \* glmax
        Step(Int32LE(0), 4),                         \* glmin
        Step(header.descrip, 80),                    \* descrip
        Step(Zeros(24), 24),                         \* aux_file
        Step(Int16LE(header.qform_code), 2),
        Step(Int16LE(header.sform_code), 2),
        Step(FloatLE(header.quatern_b), 4),
        Step(FloatLE(header.quatern_c), 4),
        Step(FloatLE(header.quatern_d), 4),
        Step(FloatLE(header.qoffset_x), 4),
        Step(FloatLE(header.qoffset_y), 4),
        Step(FloatLE(header.qoffset_z), 4) >>
  \o [i \in 1..4 |-> Step(FloatLE(header.srow_x[i]), 4)]
  \o [i \in 1..4 |-> Step(FloatLE(header.srow_y[i]), 4)]
  \o [i \in 1..4 |-> Step(FloatLE(header.srow_z[i]), 4)]
  \o << Step(Zeros(16), 16),                         \* intent_name
        Step(header.magic, 4) >>                     \* magic

\* offset += ..., over the writes lo..hi
RECURSIVE SumAdvance(_, _, _)
SumAdvance(steps, lo, hi) ==
  IF lo > hi THEN 0
  ELSE IF lo = hi THEN steps[lo].advance
  ELSE LET mid == (lo + hi) \div 2
       IN SumAdvance(steps, lo, mid) + SumAdvance(steps, mid + 1, hi)

\* The bytes of the buffer from the given running offset on, as far as the
\* writes lo..hi advance the offset, after these writes. No write is longer
\* than its advance, so each write lands in its own stretch of the buffer:
\* its bytes, then what the buffer held up to the next write.
RECURSIVE RunSteps(_, _, _, _, _)
RunSteps(buffer, offset, steps, lo, hi) ==
  IF lo = hi
    THEN IF Len(steps[lo].bytes) = steps[lo].advance
           THEN steps[lo].bytes
           ELSE steps[lo].bytes
                  \o SubSeq(buffer, offset + Len(steps[lo].bytes) + 1, offset + steps[lo].advance)
    ELSE LET mid == (lo + hi) \div 2
         IN RunSteps(buffer, offset, steps, lo, mid)
              \o RunSteps(buffer, offset + SumAdvance(steps, lo, mid), steps, mid + 1, hi)

\* Returns the buffer after the writes and the final value of offset
writeNiftiHeader(buffer, header) ==
  LET steps == HeaderSteps(header)
      final == SumAdvance(steps, 1, Len(steps))
  IN [ buffer |-> RunSteps(buffer, 0, steps, 1, Len(steps))
                    \o SubSeq(buffer, final + 1, Len(buffer)),
       offset |-> final ]

(***************************************************************************)
(* Pixel data as the decoder hands it over. The code tells the shapes      *)
(* apart at run time, so the model keeps the shape with the content:       *)
(*   "none"     PixelData is absent (undefined)                            *)
(*   "buffer"   an ArrayBuffer, Uint8Array, Uint16Array or Int16Array;     *)
(*              data are its bytes                                         *)
(*   "frames"   an Array holding one ArrayBuffer; data are its bytes       *)
(*   "array"    an Array of numbers; data are the numbers                  *)
(*   "indexed"  an object, not an Array, whose property 0 is an            *)
(*              ArrayBuffer; data are its bytes                            *)
(*   "other"    any other value (a Float32Array, a string)                 *)
(***************************************************************************)
MaxPixLen == 3     \* longest pixel buffer (bytes) or array (elements)

PixelData(kind, data) == [kind |-> kind, data |-> data]

\* Content that tells the records and the positions apart: element j of
\* record i. Array elements exceed one byte, so that conversion shows.
PatternByte(i, j) == 16 * i + j

PatternBytes(i, len) == [j \in 1..len |-> PatternByte(i, j)]

PatternNumbers(i, len) == [j \in 1..len |-> 256 + PatternByte(i, j)]

\* The pixel data record i can carry, of the given shapes and lengths
PixelDataOf(i, kinds, lengths) ==
  { PixelData(k, <<>>) : k \in kinds \cap {"none", "other"} }
    \cup { PixelData(k, PatternBytes(i, n)) :
             k \in kinds \cap {"buffer", "frames", "indexed"}, n \in lengths }
    \cup { PixelData(k, PatternNumbers(i, n)) :
             k \in kinds \cap {"array"}, n \in lengths }

\* new Uint8Array(numbers): one byte per element
ToUint8Bytes(numbers) == [j \in 1..Len(numbers) |-> numbers[j] % 256]

\* new Uint16Array(numbers).buffer, new Int16Array(numbers).buffer:
\* two bytes per element, low byte first
ToInt16Bytes(numbers) == Flatten([j \in 1..Len(numbers) |-> Int16LE(numbers[j])])

(***************************************************************************)
(* createNiftiFromMultiframe                                               *)
(***************************************************************************)
\* A mutant of the rank decision: a time axis of one point counts as 4D
NiftiDimsAlways4D(mf) ==
  LET numberOfFrames == OrDefault(mf.NumberOfFrames, 1)
      numberOfSlices == OrDefault(mf.NumberOfSlices, numberOfFrames)
      numberOfTimepoints == OrDefault(mf.NumberOfTemporalPositions, 1)
  IN <<4, mf.Columns, mf.Rows, numberOfSlices, numberOfTimepoints, 1, 1, 1>>

\* dims
NiftiDims(mf) ==
  LET numberOfFrames == OrDefault(mf.NumberOfFrames, 1)
      numberOfSlices == OrDefault(mf.NumberOfSlices, numberOfFrames)
      numberOfTimepoints == OrDefault(mf.NumberOfTemporalPositions, 1)
  IN IF numberOfTimepoints > 1
       THEN <<4, mf.Columns, mf.Rows, numberOfSlices, numberOfTimepoints, 1, 1, 1>>
       ELSE <<3, mf.Columns, mf.Rows, numberOfFrames, 1, 1, 1, 1>>

\* (multiframe.PixelSpacing as number[]) || [1, 1]; <<>> is an absent tag
SpacingOrDefault(mf) == IF mf.PixelSpacing = <<>> THEN <<1, 1>> ELSE mf.PixelSpacing

\* A mutant of the header: the sample type follows BitsAllocated
NiftiHeaderTypedByBits(mf) ==
  LET dims == NiftiDims(mf)
      pixelSpacing == SpacingOrDefault(mf)
      sliceThickness == OrDefault(mf.SliceThickness, 1)
      sx == OrDefault(pixelSpacing[1], 1)
      sy == OrDefault(pixelSpacing[2], 1)
      bits == OrDefault(mf.BitsAllocated, 16)
  IN [ dim |-> dims,
       pixdim |-> <<1, sx, sy, sliceThickness, 1, 1, 1, 1>>,
       datatype |-> IF bits = 8 THEN 2 ELSE TYPE_INT16,
       bitpix |-> bits,
       cal_max |-> 0, cal_min |-> 0,
       scl_slope |-> 1, scl_inter |-> 0,
       dim_info |-> 0,
       intent_p1 |-> 0, intent_p2 |-> 0, intent_p3 |-> 0, intent_code |-> 0,
       slice_start |-> 0,
       slice_end |-> dims[4] - 1,
       slice_code |-> 0,
       xyzt_units |-> 2,
       magic |-> MagicText,
       vox_offset |-> HeaderSize,
       descrip |-> DescripText,
       qform_code |-> 1, sform_code |-> 1,
       quatern_b |-> 0, quatern_c |-> 0, quatern_d |-> 0,
       qoffset_x |-> 0, qoffset_y |-> 0, qoffset_z |-> 0,
       srow_x |-> <<sx, 0, 0, 0>>,
       srow_y |-> <<0, sy, 0, 0>>,
       srow_z |-> <<0, 0, sliceThickness, 0>> ]

NiftiHeader(mf) ==
  LET dims == NiftiDims(mf)
      pixelSpacing == SpacingOrDefault(mf)
      sliceThickness == OrDefault(mf.SliceThickness, 1)
      sx == OrDefault(pixelSpacing[1], 1)
      sy == OrDefault(pixelSpacing[2], 1)
  IN [ dim |-> dims,
       pixdim |-> <<1, sx, sy, sliceThickness, 1, 1, 1, 1>>,
       datatype |-> TYPE_INT16,
       bitpix |-> 16,
       cal_max |-> 0, cal_min |-> 0,
       scl_slope |-> 1, scl_inter |-> 0,
       dim_info |-> 0,
       intent_p1 |-> 0, intent_p2 |-> 0, intent_p3 |-> 0, intent_code |-> 0,
       slice_start |-> 0,
       slice_end |-> dims[4] - 1,
       slice_code |-> 0,
       xyzt_units |-> 2,
       magic |-> MagicText,
       vox_offset |-> HeaderSize,
       descrip |-> DescripText,
       qform_code |-> 1, sform_code |-> 1,
       quatern_b |-> 0, quatern_c |-> 0, quatern_d |-> 0,
       qoffset_x |-> 0, qoffset_y |-> 0, qoffset_z |-> 0,
       srow_x |-> <<sx, 0, 0, 0>>,
       srow_y |-> <<0, sy, 0, 0>>,
       srow_z |-> <<0, 0, sliceThickness, 0>> ]

\* The conversion of multiframe.PixelData to imageData; it throws on a
\* value that is absent or of an unsupported shape
ImageData(pixelData) ==
  CASE pixelData.kind \in {"buffer", "frames", "indexed"} ->
         [ok |-> TRUE, bytes |-> pixelData.data]
    [] pixelData.kind = "array" ->
         [ok |-> TRUE, bytes |-> ToInt16Bytes(pixelData.data)]
    [] OTHER -> [ok |-> FALSE, bytes |-> <<>>]

\* writeInt16LE throws a RangeError outside the int16 range
FitsInt16(v) == v >= -32768 /\ v <= 32767

\* "" when createNiftiFromMultiframe returns, else the error it throws
createNiftiError(mf) ==
  IF ~ImageData(mf.PixelData).ok THEN "Unsupported pixel data format"
  ELSE IF \E i \in 1..8 : ~FitsInt16(NiftiDims(mf)[i]) THEN "RangeError"
  ELSE ""

createNiftiFromMultiframe(mf) ==
  IF createNiftiError(mf) # ""
    THEN [status |-> "error", error |-> createNiftiError(mf)]
    ELSE LET header == NiftiHeader(mf)
             imageData == ImageData(mf.PixelData).bytes
             totalSize == HeaderSize + Len(imageData)
             written == writeNiftiHeader(Zeros(totalSize), header)
         IN [ status |-> "ok",
              header |-> header,
              offset |-> written.offset,
              imageData |-> imageData,
              buffer |-> WriteAt(written.buffer, HeaderSize, imageData) ]

(***************************************************************************)
(* SpecHdr: createNiftiFromMultiframe on a multiframe dataset, as the      *)
(* normalizer or the manual assembly may hand it over                      *)
(***************************************************************************)
MaxRows == 2
MaxColumns == 2
MaxFrames == 2        \* largest NumberOfFrames / NumberOfSlices of an input
MaxTimepoints == 3    \* largest NumberOfTemporalPositions of an input

AllPixelKinds == {"none", "buffer", "frames", "array", "indexed", "other"}

\* PixelSpacing: absent, zero, exact in binary32, and with a first value
\* (2^24 + 1) that binary32 cannot hold
PixelSpacings == {<<>>, <<0, 0>>, <<2, 3>>, <<16777217, 3>>}

SliceThicknesses == {0, 5}

Multiframes ==
  { [ Rows |-> r, Columns |-> c,
      NumberOfFrames |-> f, NumberOfSlices |-> z, NumberOfTemporalPositions |-> t,
      PixelSpacing |-> ps, SliceThickness |-> st, PixelData |-> pd ] :
      r \in 1..MaxRows \cup {32768}, c \in 1..MaxColumns,
      f \in 0..MaxFrames, z \in 0..MaxFrames, t \in 0..MaxTimepoints,
      ps \in PixelSpacings, st \in SliceThicknesses,
      pd \in PixelDataOf(1, AllPixelKinds, 0..MaxPixLen) }

InitHdr ==
  /\ pc = "encode"
  /\ dir = <<>>
  /\ seriesList = <<>>
  /\ datasets = NoDatasets
  /\ asmOut = NoOutcome
  /\ multiframe \in Multiframes
  /\ niftiOut = NoOutcome
  /\ IdlePng
  /\ IdleWin
  /\ IdleRun
  /\ IdleDcm

Encode ==
  /\ pc = "encode"
  /\ niftiOut' = createNiftiFromMultiframe(multiframe)
  /\ pc' = "encoded"
  /\ UNCHANGED <<dir, seriesList, datasets, asmOut, multiframe, pngVars, winVars, runVars, dcmVars>>

NextHdr == Encode

SpecHdr == InitHdr /\ [][NextHdr]_vars

(***************************************************************************)
(* VolumeAssembler: createMultiframeFromDatasets, concatenatePixelData,    *)
(* concatenate4DPixelData                                                  *)
(***************************************************************************)
\* if (dataset.PixelData): every shape but an absent value is truthy
HasPixelData(dataset) == dataset.PixelData.kind # "none"

\* the PixelData of the datasets that have one, in order
RECURSIVE CollectPixelData(_)
CollectPixelData(ds) ==
  IF ds = <<>> THEN <<>>
  ELSE IF HasPixelData(Head(ds))
    THEN <<Head(ds).PixelData>> \o CollectPixelData(Tail(ds))
    ELSE CollectPixelData(Tail(ds))

\* bytesPerFrame (bytesPerSlice) of the reference dataset
BytesPerFrame(referenceDataset) ==
  LET bitsAllocated == OrDefault(referenceDataset.BitsAllocated, 16)
      samplesPerPixel == OrDefault(referenceDataset.SamplesPerPixel, 1)
      bytesPerPixel == (bitsAllocated + 7) \div 8
      pixelsPerFrame == referenceDataset.Rows * referenceDataset.Columns * samplesPerPixel
  IN pixelsPerFrame * bytesPerPixel

\* frameData of concatenatePixelData. An Array goes through a typed array
\* chosen by BitsAllocated; an Array holding an ArrayBuffer is an Array too,
\* and its one element converts to the number 0.
FrameData(pixelData, bitsAllocated) ==
  CASE pixelData.kind = "buffer" -> [ok |-> TRUE, bytes |-> pixelData.data]
    [] pixelData.kind = "array" ->
         [ok |-> TRUE,
          bytes |-> IF bitsAllocated <= 8 THEN ToUint8Bytes(pixelData.data)
                                          ELSE ToInt16Bytes(pixelData.data)]
    [] pixelData.kind = "frames" ->
         [ok |-> TRUE,
          bytes |-> IF bitsAllocated <= 8 THEN ToUint8Bytes(<<0>>)
                                          ELSE ToInt16Bytes(<<0>>)]
    [] OTHER -> [ok |-> FALSE, bytes |-> <<>>]

\* The loop of concatenatePixelData: an unsupported shape is skipped by
\* "continue", before the statement that advances offset
RECURSIVE concatLoop(_, _, _, _, _)
concatLoop(combinedView, offset, pixelDataArrays, bytesPerFrame, bitsAllocated) ==
  IF pixelDataArrays = <<>> THEN combinedView
  ELSE LET frameData == FrameData(Head(pixelDataArrays), bitsAllocated)
           frameBytesToCopy == Min2(Len(frameData.bytes), bytesPerFrame)
       IN IF ~frameData.ok
            THEN concatLoop(combinedView, offset, Tail(pixelDataArrays),
                            bytesPerFrame, bitsAllocated)
            ELSE concatLoop(WriteAt(combinedView, offset,
                                    SubSeq(frameData.bytes, 1, frameBytesToCopy)),
                            offset + bytesPerFrame, Tail(pixelDataArrays),
                            bytesPerFrame, bitsAllocated)

concatenatePixelData(pixelDataArrays, referenceDataset) ==
  IF pixelDataArrays = <<>> THEN [ok |-> FALSE, bytes |-> <<>>]
  ELSE LET bitsAllocated == OrDefault(referenceDataset.BitsAllocated, 16)
           bytesPerFrame == BytesPerFrame(referenceDataset)
           totalBytes == bytesPerFrame * Len(pixelDataArrays)
       IN [ok |-> TRUE,
           bytes |-> concatLoop(Zeros(totalBytes), 0, pixelDataArrays,
                                bytesPerFrame, bitsAllocated)]

\* timepointData of concatenate4DPixelData: only an Array of length 1 that
\* holds an ArrayBuffer (or typed array) is accepted
TimepointData(pixelData) ==
  IF pixelData.kind = "frames"
    THEN [ok |-> TRUE, bytes |-> pixelData.data]
    ELSE [ok |-> FALSE, bytes |-> <<>>]

\* The loop of concatenate4DPixelData: a skipped timepoint advances the offset
RECURSIVE concat4DLoop(_, _, _, _)
concat4DLoop(combinedView, timepointOffset, pixelDataArrays, bytesPerTimepoint) ==
  IF pixelDataArrays = <<>> THEN combinedView
  ELSE LET timepointData == TimepointData(Head(pixelDataArrays))
           timepointBytesToCopy == Min2(Len(timepointData.bytes), bytesPerTimepoint)
       IN IF ~timepointData.ok
            THEN concat4DLoop(combinedView, timepointOffset + bytesPerTimepoint,
                              Tail(pixelDataArrays), bytesPerTimepoint)
            ELSE concat4DLoop(WriteAt(combinedView, timepointOffset,
                                      SubSeq(timepointData.bytes, 1, timepointBytesToCopy)),
                              timepointOffset + bytesPerTimepoint,
                              Tail(pixelDataArrays), bytesPerTimepoint)

concatenate4DPixelData(pixelDataArrays, referenceDataset, slicesPerTimepoint) ==
  IF pixelDataArrays = <<>> THEN [ok |-> FALSE, bytes |-> <<>>]
  ELSE LET bytesPerTimepoint == BytesPerFrame(referenceDataset) * slicesPerTimepoint
           totalBytes == bytesPerTimepoint * Len(pixelDataArrays)
       IN [ok |-> TRUE,
           bytes |-> concat4DLoop(Zeros(totalBytes), 0, pixelDataArrays, bytesPerTimepoint)]

\* {...firstDataset, NumberOfFrames, NumberOfTemporalPositions, NumberOfSlices,
\*  PixelData}; a tag the datasets do not carry is absent (0)
Multiframe(firstDataset, frames, slices, timepoints, bytes) ==
  [ Rows |-> firstDataset.Rows, Columns |-> firstDataset.Columns,
    BitsAllocated |-> firstDataset.BitsAllocated,
    SamplesPerPixel |-> firstDataset.SamplesPerPixel,
    PixelSpacing |-> firstDataset.PixelSpacing,
    SliceThickness |-> firstDataset.SliceThickness,
    NumberOfFrames |-> frames,
    NumberOfSlices |-> slices,
    NumberOfTemporalPositions |-> timepoints,
    PixelData |-> PixelData("buffer", bytes) ]

\* A mutant of the 4D branch: the time axis gets the frame count of a file
createMultiframeFromDatasetsFramesAsTime(ds) ==
  IF ds = <<>> THEN [status |-> "error", error |-> "No datasets provided"]
  ELSE
    LET firstDataset == ds[1]
        framesPerFile == OrDefault(firstDataset.NumberOfFrames, 1)
        numFiles == Len(ds)
        collected == CollectPixelData(ds)
    IN IF framesPerFile > 1
         THEN LET data == concatenate4DPixelData(collected, firstDataset, framesPerFile)
              IN IF ~data.ok THEN [status |-> "error", error |-> "No pixel data found"]
                 ELSE [status |-> "ok",
                       multiframe |-> Multiframe(firstDataset, numFiles * framesPerFile,
                                                 numFiles, framesPerFile, data.bytes)]
         ELSE LET data == concatenatePixelData(collected, firstDataset)
              IN IF ~data.ok THEN [status |-> "error", error |-> "No pixel data found"]
                 ELSE [status |-> "ok",
                       multiframe |-> Multiframe(firstDataset, numFiles, 0, 0, data.bytes)]

\* Only the first dataset decides between the 3D and the 4D branch
createMultiframeFromDatasets(ds) ==
  IF ds = <<>> THEN [status |-> "error", error |-> "No datasets provided"]
  ELSE
    LET firstDataset == ds[1]
        framesPerFile == OrDefault(firstDataset.NumberOfFrames, 1)
        numFiles == Len(ds)
        collected == CollectPixelData(ds)
    IN IF framesPerFile > 1
         THEN LET totalTimepoints == numFiles
                  slicesPerTimepoint == framesPerFile
                  data == concatenate4DPixelData(collected, firstDataset, slicesPerTimepoint)
              IN IF ~data.ok THEN [status |-> "error", error |-> "No pixel data found"]
                 ELSE [status |-> "ok",
                       multiframe |-> Multiframe(firstDataset,
                                                 totalTimepoints * slicesPerTimepoint,
                                                 slicesPerTimepoint, totalTimepoints,
                                                 data.bytes)]
         ELSE LET data == concatenatePixelData(collected, firstDataset)
              IN IF ~data.ok THEN [status |-> "error", error |-> "No pixel data found"]
                 ELSE [status |-> "ok",
                       multiframe |-> Multiframe(firstDataset, numFiles, 0, 0, data.bytes)]

\* A mutant of the conversion: the header takes the spacing and the slice
\* thickness of the last record
convertSeriesManuallyLastGeometry(ds) ==
  LET assembled == createMultiframeFromDatasets(ds)
  IN IF assembled.status # "ok"
       THEN [status |-> "failed", error |-> assembled.error]
       ELSE LET last == ds[Len(ds)]
                mf == [assembled.multiframe EXCEPT
                         !.PixelSpacing = last.PixelSpacing,
                         !.SliceThickness = last.SliceThickness]
                nifti == createNiftiFromMultiframe(mf)
            IN IF nifti.status # "ok"
                 THEN [status |-> "failed", error |-> nifti.error]
                 ELSE [status |-> "written",
                       multiframe |-> mf,
                       file |-> nifti.buffer]

\* convertDicomSeriesToNifti when normalizeToDataset has thrown, followed by
\* the write of dcm2nii's loop body. An error thrown on the way is caught by
\* the loop body, which reports it and writes nothing.
convertSeriesManually(ds) ==
  LET assembled == createMultiframeFromDatasets(ds)
  IN IF assembled.status # "ok"
       THEN [status |-> "failed", error |-> assembled.error]
       ELSE LET nifti == createNiftiFromMultiframe(assembled.multiframe)
            IN IF nifti.status # "ok"
                 THEN [status |-> "failed", error |-> nifti.error]
                 ELSE [status |-> "written",
                       multiframe |-> assembled.multiframe,
                       file |-> nifti.buffer]

(***************************************************************************)
(* SpecAsm: the datasets of one series are converted by manual assembly    *)
(***************************************************************************)
MaxRecords == 2    \* files in the series

\* NumberOfFrames of a file: absent, single frame, multi-frame
SeriesFrameCounts == {0, 1, 3}

SeriesPixelKinds == {"none", "buffer", "frames", "array", "other"}

\* Rows, Columns, BitsAllocated, SamplesPerPixel, PixelSpacing and
\* SliceThickness of the first file of a series
SeriesGeometries ==
  { [Rows |-> 1, Columns |-> 1, BitsAllocated |-> 8, SamplesPerPixel |-> 1,
     PixelSpacing |-> <<2, 3>>, SliceThickness |-> 5],
    [Rows |-> 2, Columns |-> 1, BitsAllocated |-> 8, SamplesPerPixel |-> 1,
     PixelSpacing |-> <<2, 3>>, SliceThickness |-> 0],
    [Rows |-> 1, Columns |-> 2, BitsAllocated |-> 0, SamplesPerPixel |-> 0,
     PixelSpacing |-> <<>>, SliceThickness |-> 0] }

\* The records after the first: they carry the first record's spacing and
\* slice thickness in the series without SliceThickness, other values in
\* the other series
LaterGeometries(g) ==
  IF g.PixelSpacing # <<>> /\ g.SliceThickness = 0
    THEN {g}
    ELSE {[g EXCEPT !.PixelSpacing = <<7, 9>>, !.SliceThickness = 4]}

Dataset(g, frames, pixelData) ==
  [ Rows |-> g.Rows, Columns |-> g.Columns, BitsAllocated |-> g.BitsAllocated,
    SamplesPerPixel |-> g.SamplesPerPixel, PixelSpacing |-> g.PixelSpacing,
    SliceThickness |-> g.SliceThickness,
    NumberOfFrames |-> frames, PixelData |-> pixelData ]

\* Lengths of the pixel data of a file around the length its own tags call
\* for: empty, one short, exact, one long
PixelLengths(g, frames) ==
  LET expected == BytesPerFrame(g) * OrDefault(frames, 1)
  IN {0, expected - 1, expected, expected + 1}

\* What a file of a series of geometry g can be: its NumberOfFrames and the
\* shape and length of its PixelData
FileShapes(g) ==
  { [frames |-> f, kind |-> k, len |-> 0] :
      f \in SeriesFrameCounts, k \in SeriesPixelKinds \cap {"none", "other"} }
    \cup UNION { { [frames |-> f, kind |-> k, len |-> n] :
                     k \in SeriesPixelKinds \ {"none", "other"},
                     n \in PixelLengths(g, f) } :
                 f \in SeriesFrameCounts }

\* file i of the series, filled with the content of record i
DatasetOfShape(g, i, shape) ==
  Dataset(g, shape.frames,
          PixelData(shape.kind,
                    IF shape.kind = "array" THEN PatternNumbers(i, shape.len)
                                            ELSE PatternBytes(i, shape.len)))

InitAsm ==
  /\ pc = "convert"
  /\ dir = <<>>
  /\ seriesList = <<>>
  /\ \E g \in SeriesGeometries, n \in 1..MaxRecords :
       \E shapes \in [1..n -> FileShapes(g)], later \in LaterGeometries(g) :
         datasets = [i \in 1..n |->
                      DatasetOfShape(IF i = 1 THEN g ELSE later, i, shapes[i])]
  /\ asmOut = NoOutcome
  /\ multiframe = NoOutcome
  /\ niftiOut = NoOutcome
  /\ IdlePng
  /\ IdleWin
  /\ IdleRun
  /\ IdleDcm

Convert ==
  /\ pc = "convert"
  /\ asmOut' = convertSeriesManually(datasets)
  /\ pc' = "converted"
  /\ UNCHANGED <<dir, seriesList, datasets, multiframe, niftiOut, pngVars, winVars, runVars, dcmVars>>

NextAsm == Convert

SpecAsm == InitAsm /\ [][NextAsm]_vars

(***************************************************************************)
(* Claims on VolumetricHeaderCodec, checked under SpecHdr                  *)
(***************************************************************************)
Encoded == pc = "encoded" /\ niftiOut.status = "ok"

\* readers of the little-endian fields of a buffer, by byte offset
ReadInt16LE(buffer, offset) ==
  LET u == buffer[offset + 1] + 256 * buffer[offset + 2]
  IN IF u >= 32768 THEN u - 65536 ELSE u

ReadInt32LE(buffer, offset) ==
  buffer[offset + 1] + 256 * buffer[offset + 2]
    + 65536 * buffer[offset + 3] + 16777216 * buffer[offset + 4]

\* the axis-size field dim[8] at byte offset 40
ReadDims(buffer) == [i \in 1..8 |-> ReadInt16LE(buffer, 40 + 2 * (i - 1))]

\* the bytes the input's pixel data stands for
InputPayload(mf) ==
  IF mf.PixelData.kind = "array"
    THEN ToInt16Bytes(mf.PixelData.data)
    ELSE mf.PixelData.data

\* C9: an encoded buffer is 352 + payloadLength bytes long; the header
\* writer's running offset ends at 348; sizeof_hdr at offset 0 reads 348;
\* the magic "n+1\0" is at bytes 344..347; bytes 348..351 are zero; the
\* payload follows unchanged at [352, 352 + payloadLength)
C9_HeaderLayout ==
  Encoded =>
    LET payload == InputPayload(multiframe)
        buffer == niftiOut.buffer
    IN /\ Len(buffer) = 352 + Len(payload)
       /\ niftiOut.offset = 348
       /\ ReadInt32LE(buffer, 0) = 348
       /\ SubSeq(buffer, 345, 348) = <<110, 43, 49, 0>>
       /\ SubSeq(buffer, 349, 352) = <<0, 0, 0, 0>>
       /\ SubSeq(buffer, 353, Len(buffer)) = payload

\* C9 witness: a buffer was encoded around a payload of three non-zero bytes
C9_Witness ==
  /\ Encoded
  /\ multiframe.PixelData.kind = "buffer"
  /\ Len(niftiOut.buffer) = 355
  /\ niftiOut.buffer[353] # 0 /\ niftiOut.buffer[355] # 0

TimeAxisPoints(mf) == OrDefault(mf.NumberOfTemporalPositions, 1)

\* C10: the axis-size field of an encoded buffer is
\* [rank, x, y, z, t-or-1, 1, 1, 1]: rank 4 and element 4 the number of
\* timepoints when the volume has a time axis (more than one timepoint),
\* otherwise rank 3 and element 4 equal to 1
C10_AxisSizeField ==
  Encoded =>
    LET dim == ReadDims(niftiOut.buffer)
        frames == OrDefault(multiframe.NumberOfFrames, 1)
    IN /\ dim[1] \in {3, 4}
       /\ dim[1] = 4 <=> TimeAxisPoints(multiframe) > 1
       /\ dim[2] = multiframe.Columns
       /\ dim[3] = multiframe.Rows
       /\ dim[4] = IF dim[1] = 4 THEN OrDefault(multiframe.NumberOfSlices, frames)
                                 ELSE frames
       /\ dim[5] = IF dim[1] = 4 THEN TimeAxisPoints(multiframe) ELSE 1
       /\ dim[6] = 1 /\ dim[7] = 1 /\ dim[8] = 1

\* C10 witness: a volume of three timepoints of two slices was encoded, with
\* rows, columns, slices and timepoints pairwise different where they can be
C10_Witness ==
  /\ Encoded
  /\ ReadDims(niftiOut.buffer) = <<4, 1, 2, 2, 3, 1, 1, 1>>
  /\ multiframe.NumberOfFrames = 1

(***************************************************************************)
(* Claims on VolumeAssembler, checked under SpecAsm                        *)
(***************************************************************************)
Converted == pc = "converted"
Written == Converted /\ asmOut.status = "written"

RecordCount == Len(datasets)
FrameCount(dataset) == OrDefault(dataset.NumberOfFrames, 1)
AllSingleFrame == \A i \in 1..RecordCount : FrameCount(datasets[i]) = 1
UniformMultiFrame ==
  /\ FrameCount(datasets[1]) > 1
  /\ \A i \in 1..RecordCount : FrameCount(datasets[i]) = FrameCount(datasets[1])
MixedFrameCounts ==
  \E i, j \in 1..RecordCount : FrameCount(datasets[i]) # FrameCount(datasets[j])

\* columns x rows x samplesPerPixel x ceil(bitsAllocated / 8)
BytesPerPixelFrame == BytesPerFrame(datasets[1])

\* the data buffer of the assembled volume
VolumeData == asmOut.multiframe.PixelData.data

\* TRUE when record i carries pixel bytes; RecordBytes(i) are those bytes
HasBytes(i) == datasets[i].PixelData.kind \in {"buffer", "frames", "array"}
RecordBytes(i) ==
  IF datasets[i].PixelData.kind = "array"
    THEN FrameData(datasets[i].PixelData,
                   OrDefault(datasets[i].BitsAllocated, 16)).bytes
    ELSE datasets[i].PixelData.data

\* bytes cut to n bytes, or followed by zeros up to n bytes
FitTo(bytes, n) ==
  IF Len(bytes) >= n THEN SubSeq(bytes, 1, n)
                     ELSE bytes \o Zeros(n - Len(bytes))

\* C5: the volume assembled from a series of single-frame records has as
\* many slices as the series has records, and a data buffer of
\* recordCount x bytesPerPixelFrame bytes, also when some record has no
\* pixel data or pixel data of an unsupported shape
C5_SingleFrameVolumeSize ==
  (Written /\ AllSingleFrame) =>
    /\ ReadDims(asmOut.file)[4] = RecordCount
    /\ Len(VolumeData) = RecordCount * BytesPerPixelFrame

\* C6: in the volume assembled from single-frame records, record i (from 0)
\* fills exactly the bytes [i x bytesPerPixelFrame, (i+1) x
\* bytesPerPixelFrame) with its pixel bytes, cut or zero-padded to that size
C6_RecordFillsOwnSlice ==
  (Written /\ AllSingleFrame) =>
    \A i \in 1..RecordCount :
      HasBytes(i) =>
        /\ Len(VolumeData) >= i * BytesPerPixelFrame
        /\ SubSeq(VolumeData, (i - 1) * BytesPerPixelFrame + 1,
                  i * BytesPerPixelFrame)
             = FitTo(RecordBytes(i), BytesPerPixelFrame)

\* the axis-size field of the file written for the series
WrittenDims == ReadDims(asmOut.file)

\* C7 as stated: every volume emitted for a series of records with one
\* common frameCount > 1 has the axis-size field
\* [4, columns, rows, frameCount, recordCount, 1, 1, 1], one record included
C7_Always4D ==
  (Written /\ UniformMultiFrame) =>
    WrittenDims = <<4, datasets[1].Columns, datasets[1].Rows,
                    FrameCount(datasets[1]), RecordCount, 1, 1, 1>>

\* C7 amended: a volume emitted for a series of records with one common
\* frameCount > 1 has the axis-size field
\* [4, columns, rows, frameCount, recordCount, 1, 1, 1] when the series has
\* two records or more, and [3, columns, rows, frameCount, 1, 1, 1, 1] when
\* it has one record
C7_4DFromTwoRecords ==
  (Written /\ UniformMultiFrame) =>
    WrittenDims =
      IF RecordCount >= 2
        THEN <<4, datasets[1].Columns, datasets[1].Rows,
               FrameCount(datasets[1]), RecordCount, 1, 1, 1>>
        ELSE <<3, datasets[1].Columns, datasets[1].Rows,
               FrameCount(datasets[1]), 1, 1, 1, 1>>

\* C7 witness: a volume was emitted for two records of three frames each,
\* in a geometry whose columns and rows differ
C7_Witness ==
  /\ Written /\ UniformMultiFrame
  /\ RecordCount = 2
  /\ \A i \in 1..2 : datasets[i].PixelData.kind = "frames"
  /\ WrittenDims = <<4, 2, 1, 3, 2, 1, 1, 1>>

\* C8: the conversion of a series whose records do not all have the same
\* frameCount ends in an error, and no file is written for it
C8_MixedFrameCountsRejected ==
  (Converted /\ MixedFrameCounts) => asmOut.status = "failed"

\* the int16 fields of the written file the payload size depends on
WrittenBitpix == ReadInt16LE(asmOut.file, 72)
WrittenAxisProduct ==
  LET dim == WrittenDims
  IN dim[2] * dim[3] * dim[4] * dim[5] * dim[6] * dim[7] * dim[8]

\* C11: the payload of every file written (file length - 352) is as long as
\* the product of the header's axis sizes x samplesPerPixel x bitpix / 8
C11_PayloadMatchesHeader ==
  Written =>
    Len(asmOut.file) - 352
      = WrittenAxisProduct * OrDefault(datasets[1].SamplesPerPixel, 1)
          * (WrittenBitpix \div 8)

(***************************************************************************)
(* Round trip of the header, checked under SpecHdr                         *)
(***************************************************************************)
\* the number a binary32 bit pattern stands for (integer values, from 1 up)
Float32Value(bits) ==
  IF bits = 0 THEN 0
  ELSE LET e == (bits \div 8388608) - 127
           significand == 8388608 + (bits % 8388608)
       IN IF e >= 23 THEN significand * Pow2(e - 23)
                     ELSE significand \div Pow2(23 - e)

ReadFloatLE(buffer, offset) == Float32Value(ReadInt32LE(buffer, offset))

ReadFloats(buffer, offset, n) ==
  [i \in 1..n |-> ReadFloatLE(buffer, offset + 4 * (i - 1))]

\* every geometry and type field read back at its fixed offset and width
DecodeHeader(buffer) ==
  [ dim |-> ReadDims(buffer),
    datatype |-> ReadInt16LE(buffer, 70),
    bitpix |-> ReadInt16LE(buffer, 72),
    pixdim |-> ReadFloats(buffer, 76, 8),
    vox_offset |-> ReadFloatLE(buffer, 108),
    scl_slope |-> ReadFloatLE(buffer, 112),
    scl_inter |-> ReadFloatLE(buffer, 116),
    qform_code |-> ReadInt16LE(buffer, 252),
    sform_code |-> ReadInt16LE(buffer, 254),
    srow_x |-> ReadFloats(buffer, 280, 4),
    srow_y |-> ReadFloats(buffer, 296, 4),
    srow_z |-> ReadFloats(buffer, 312, 4) ]

\* the same fields of the header passed to the encoder
RoundTripFields(header) ==
  [ dim |-> header.dim,
    datatype |-> header.datatype,
    bitpix |-> header.bitpix,
    pixdim |-> header.pixdim,
    vox_offset |-> header.vox_offset,
    scl_slope |-> header.scl_slope,
    scl_inter |-> header.scl_inter,
    qform_code |-> header.qform_code,
    sform_code |-> header.sform_code,
    srow_x |-> header.srow_x,
    srow_y |-> header.srow_y,
    srow_z |-> header.srow_z ]

\* the header createNiftiFromMultiframe passes to writeNiftiHeader
PassedHeader == NiftiHeader(multiframe)

\* the input reaches writeNiftiHeader: its pixel data converts to imageData
ReachesEncoder == pc = "encoded" /\ ImageData(multiframe.PixelData).ok

\* TRUE when binary32 holds the integer v exactly
InBinary32(v) == v < 16777216 \/ v % Pow2(Log2(v) - 23) = 0

\* the values of a float field that binary32 holds exactly are read back
FloatsKept(decoded, passed) ==
  \A i \in 1..Len(passed) : InBinary32(passed[i]) => decoded[i] = passed[i]

AxisSizesInInt16(header) == \A i \in 1..8 : header.dim[i] <= 32767

\* C12 as stated: every header with positive axis sizes is encoded, and its
\* axis sizes, data type, bits per sample, spacing, vox_offset, scale
\* slope/intercept, qform/sform codes and srow rows decode to the values
\* passed to the encoder
C12_RoundTripEveryHeader ==
  ReachesEncoder =>
    /\ niftiOut.status = "ok"
    /\ DecodeHeader(niftiOut.buffer) = RoundTripFields(PassedHeader)

\* C12 amended: a header is encoded exactly when its axis sizes are at most
\* 32767 (a larger one makes the encoder throw a RangeError); then the axis
\* sizes, data type, bits per sample, vox_offset, scale slope/intercept and
\* qform/sform codes decode to the values passed, and so does every spacing
\* and srow value that binary32 holds exactly
C12_RoundTripWithinFieldRange ==
  ReachesEncoder =>
    /\ niftiOut.status = "ok" <=> AxisSizesInInt16(PassedHeader)
    /\ niftiOut.status # "ok" => niftiOut.error = "RangeError"
    /\ niftiOut.status = "ok" =>
         LET decoded == DecodeHeader(niftiOut.buffer)
             passed == RoundTripFields(PassedHeader)
         IN /\ \A f \in {"dim", "datatype", "bitpix", "vox_offset", "scl_slope",
                         "scl_inter", "qform_code", "sform_code"} :
                 decoded[f] = passed[f]
            /\ \A f \in {"pixdim", "srow_x", "srow_y", "srow_z"} :
                 FloatsKept(decoded[f], passed[f])

\* C12 witness: a header of four axes with spacing 2 x 3 x 5 was encoded and
\* decodes to the values passed
C12_Witness ==
  /\ Encoded
  /\ PassedHeader.dim = <<4, 2, 1, 2, 3, 1, 1, 1>>
  /\ PassedHeader.pixdim = <<1, 2, 3, 5, 1, 1, 1, 1>>
  /\ DecodeHeader(niftiOut.buffer) = RoundTripFields(PassedHeader)

(***************************************************************************)
(* SliceRasterizer: nii2png (src/unnamed/part_003)                         *)
(***************************************************************************)
MaxDim == 2    \* largest size of a volume axis

TYPE_UINT8 == 2
TYPE_FLOAT32 == 16
TYPE_FLOAT64 == 64
TYPE_RGB24 == 128

\* the data types the switch on header.datatypeCode accepts
SupportedTypes == {TYPE_UINT8, TYPE_INT16, TYPE_FLOAT32, TYPE_FLOAT64, TYPE_RGB24}

\* parseInt(options.dim), with NaN as 0: both are falsy under ||
ParseIntDim(dim) ==
  CASE dim = "1" -> 1 [] dim = "2" -> 2 [] dim = "3" -> 3 [] dim = "4" -> 4
    [] dim = "5" -> 5 [] dim = "-1" -> -1 [] dim = "2nd" -> 2
    [] OTHER -> 0

\* ["x", "y", "z"].indexOf(options.dim.toLowerCase())
IndexOfAxis(dim) ==
  CASE dim \in {"x", "X"} -> 0
    [] dim \in {"y", "Y"} -> 1
    [] dim \in {"z", "Z"} -> 2
    [] OTHER -> -1

DimIndex(dim) == OrDefault(ParseIntDim(dim), IndexOfAxis(dim) + 1)

\* A mutant of maxSlice: always the size of the z axis
MaxSliceOfZ(dims, dimIndex) == dims[4]

\* maxSlice = dims[dimIndex] || 0
MaxSlice(dims, dimIndex) ==
  IF dimIndex + 1 \in DOMAIN dims THEN OrDefault(dims[dimIndex + 1], 0) ELSE 0

\* typedArray[index] || 0
ElementOrZero(typedArray, index) ==
  IF index >= 0 /\ index < Len(typedArray) THEN typedArray[index + 1] ELSE 0

\* width and height of the plane cut along dimIndex
PlaneWidth(dimIndex, nx, ny, nz) == IF dimIndex = 1 THEN ny ELSE nx
PlaneHeight(dimIndex, nx, ny, nz) == IF dimIndex = 3 THEN ny ELSE nz

\* A mutant of the element index: the slices are counted from 1
SourceIndexOneBased(dimIndex, slice, a, b, nx, ny, pixelStride) ==
  CASE dimIndex = 1 -> (slice + 1 + a * nx + b * nx * ny) * pixelStride
    [] dimIndex = 2 -> (a + (slice + 1) * nx + b * nx * ny) * pixelStride
    [] dimIndex = 3 -> (a + b * nx + (slice + 1) * nx * ny) * pixelStride

\* A mutant of the element index: every axis is read as the z axis
SourceIndexAlongZ(dimIndex, slice, a, b, nx, ny, pixelStride) ==
  (a + b * nx + slice * nx * ny) * pixelStride

\* the element index read for the inner loop variable a and the outer b
SourceIndex(dimIndex, slice, a, b, nx, ny, pixelStride) ==
  CASE dimIndex = 1 -> (slice + a * nx + b * nx * ny) * pixelStride
    [] dimIndex = 2 -> (a + slice * nx + b * nx * ny) * pixelStride
    [] dimIndex = 3 -> (a + b * nx + slice * nx * ny) * pixelStride

\* typedArray[index] || 0 where index is computed from options.slice: with
\* slice NaN the index is NaN, typedArray[NaN] is undefined and 0 is taken
ElementAt(typedArray, slice, index) ==
  IF slice.isNaN THEN 0 ELSE ElementOrZero(typedArray, index)

\* sliceData after the loops of the scalar path
SliceData(typedArray, dimIndex, slice, nx, ny, nz) ==
  LET width == PlaneWidth(dimIndex, nx, ny, nz)
      height == PlaneHeight(dimIndex, nx, ny, nz)
  IN [n \in 1..(width * height) |->
        ElementAt(typedArray, slice,
                  SourceIndex(dimIndex, slice.value, (n - 1) % width,
                              (n - 1) \div width, nx, ny, 1))]

\* rgbData after the loops of the RGB path
RgbData(typedArray, dimIndex, slice, nx, ny, nz) ==
  LET width == PlaneWidth(dimIndex, nx, ny, nz)
      height == PlaneHeight(dimIndex, nx, ny, nz)
  IN [n \in 1..(3 * width * height) |->
        LET p == (n - 1) \div 3
            c == (n - 1) % 3
        IN ElementAt(typedArray, slice,
                     SourceIndex(dimIndex, slice.value, p % width, p \div width,
                                 nx, ny, 3) + c)]

\* new Float32Array(sliceData): every value rounded to binary32
Fround(v) ==
  IF v < 0 THEN 0 - Float32Value(Float32Bits(0 - v))
           ELSE Float32Value(Float32Bits(v))

\* Math.round(num / den) for den > 0: halves go up
RoundDiv(num, den) == (2 * num + den) \div (2 * den)

\* Math.min(...values) and Math.max(...values) of a non-empty list
SeqMin(s) == CHOOSE v \in Range(s) : \A w \in Range(s) : v <= w
SeqMax(s) == CHOOSE v \in Range(s) : \A w \in Range(s) : v >= w

\* A mutant of normalizeToUint8: the scale is 256
normalizeToUint8Scale256(data, min, max) ==
  LET range == OrDefault(max - min, 1)
  IN [i \in 1..Len(data) |-> RoundDiv((data[i] - min) * 256, range) % 256]

\* normalized[i] = Math.round(((data[i] - min) / range) * 255), stored in a
\* Uint8Array: the store keeps the value modulo 256
normalizeToUint8(data, min, max) ==
  LET range == OrDefault(max - min, 1)
  IN [i \in 1..Len(data) |-> RoundDiv((data[i] - min) * 255, range) % 256]

\* A mutant of the destination index: no vertical flip
DstPixelUnflipped(y, x, width, height) == y * width + x

\* dstIdx >> 2: the output pixel written for the plane sample (x, y)
DstPixel(y, x, width, height) == (height - 1 - y) * width + x

\* The two loops that fill png.data, from source pixel k on; pixels[k + 1]
\* is <<R, G, B>> of source pixel k. writes counts the stores on each pixel.
RECURSIVE FillRaster(_, _, _, _, _)
FillRaster(raster, k, width, height, pixels) ==
  IF k >= width * height THEN raster
  ELSE LET dst == DstPixel(k \div width, k % width, width, height)
       IN FillRaster(
            [ data |-> WriteAt(raster.data, 4 * dst, pixels[k + 1] \o <<255>>),
              writes |-> [raster.writes EXCEPT ![dst + 1] = @ + 1] ],
            k + 1, width, height, pixels)

\* new PNG({ width, height }): a zeroed RGBA buffer
EmptyRaster(width, height) ==
  [ data |-> Zeros(4 * width * height),
    writes |-> [i \in 1..(width * height) |-> 0] ]

\* png.data of the RGB path
RgbRaster(rgbData, width, height) ==
  LET pixels == [p \in 1..(width * height) |->
                    [c \in 1..3 |-> rgbData[3 * (p - 1) + c]]]
  IN FillRaster(EmptyRaster(width, height), 0, width, height, pixels)

\* png.data of the scalar path
ScalarRaster(sliceData, width, height) ==
  LET normalizedData ==
        normalizeToUint8([i \in 1..Len(sliceData) |-> Fround(sliceData[i])],
                         SeqMin(sliceData), SeqMax(sliceData))
      pixels == [p \in 1..(width * height) |->
                    [c \in 1..3 |-> normalizedData[p]]]
  IN FillRaster(EmptyRaster(width, height), 0, width, height, pixels)

\* nii2png from the parsed header and image on: slice validation, typed
\* array, extraction, raster, write. options.slice is parseInt of the -s
\* argument: a number, or NaN (sliceIsNaN), and every comparison with NaN
\* is false
nii2png(file, options) ==
  LET dims == file.dims
      nx == dims[2]
      ny == dims[3]
      nz == dims[4]
      dimIndex == DimIndex(options.dim)
      maxSlice == MaxSlice(dims, dimIndex)
      isRGB == file.datatypeCode = TYPE_RGB24
      width == PlaneWidth(dimIndex, nx, ny, nz)
      height == PlaneHeight(dimIndex, nx, ny, nz)
      slice == [isNaN |-> options.sliceIsNaN, value |-> options.slice]
  IN IF ~slice.isNaN /\ (slice.value < 0 \/ slice.value >= maxSlice)
       THEN [status |-> "failed", error |-> "out of range"]
     ELSE IF file.datatypeCode \notin SupportedTypes
       THEN [status |-> "failed", error |-> "Unsupported data type"]
     ELSE IF dimIndex \notin {1, 2, 3}
       THEN [status |-> "failed", error |-> "Invalid dimension"]
     ELSE IF isRGB
       THEN LET rgbData == RgbData(file.typedArray, dimIndex, slice, nx, ny, nz)
            IN [ status |-> "written", width |-> width, height |-> height,
                 plane |-> rgbData,
                 raster |-> RgbRaster(rgbData, width, height) ]
       ELSE LET sliceData == SliceData(file.typedArray, dimIndex, slice, nx, ny, nz)
            IN [ status |-> "written", width |-> width, height |-> height,
                 plane |-> sliceData,
                 raster |-> ScalarRaster(sliceData, width, height) ]

(***************************************************************************)
(* SpecPng: one slice of one volume is converted                           *)
(***************************************************************************)
\* contents of a volume: element e (from 0) of the typed array
ElementOf(content, e) ==
  CASE content = "ramp" -> 10 + 3 * e
    [] content = "flat" -> 5
    [] content = "signed" -> 7 * e - 9
    [] content = "fine" -> 16777217 + 2 * e

\* the contents a data type can hold; "fine" needs more than 24 bits
ContentsOf(datatypeCode) ==
  CASE datatypeCode \in {TYPE_UINT8, TYPE_RGB24} -> {"ramp", "flat"}
    [] datatypeCode \in {TYPE_INT16, TYPE_FLOAT32} -> {"ramp", "flat", "signed"}
    [] datatypeCode = TYPE_FLOAT64 -> {"ramp", "flat", "signed", "fine"}
    [] OTHER -> {"ramp"}

\* 512 is a data type the switch does not list
DatatypeCodes == SupportedTypes \cup {512}

DimOptions == {"x", "y", "z", "Z", "1", "2", "3", "4", "0", "t", "5", "-1", "2nd"}

\* parseInt(options.slice) of the command line: an integer, or NaN for a
\* text that does not start with a number
SliceOptions ==
  [sliceIsNaN : {FALSE}, slice : (-1)..(MaxDim + 1)]
    \cup {[sliceIsNaN |-> TRUE, slice |-> 0]}

NiftiFile(nx, ny, nz, datatypeCode, content) ==
  LET pixelStride == IF datatypeCode = TYPE_RGB24 THEN 3 ELSE 1
  IN [ dims |-> <<3, nx, ny, nz, 1, 1, 1, 1>>,
       datatypeCode |-> datatypeCode,
       content |-> content,
       typedArray |-> [n \in 1..(nx * ny * nz * pixelStride) |->
                         ElementOf(content, n - 1)] ]

InitPng ==
  /\ pc = "nii2png"
  /\ dir = <<>>
  /\ seriesList = <<>>
  /\ datasets = NoDatasets
  /\ asmOut = NoOutcome
  /\ multiframe = NoOutcome
  /\ niftiOut = NoOutcome
  /\ \E nx \in 1..MaxDim, ny \in 1..MaxDim, nz \in 1..MaxDim,
        datatypeCode \in DatatypeCodes, dim \in DimOptions,
        parsed \in SliceOptions :
       \E content \in ContentsOf(datatypeCode) :
         nii = [ file |-> NiftiFile(nx, ny, nz, datatypeCode, content),
                 options |-> [dim |-> dim, slice |-> parsed.slice,
                              sliceIsNaN |-> parsed.sliceIsNaN] ]
  /\ png = NoOutcome
  /\ IdleWin
  /\ IdleRun
  /\ IdleDcm

Nii2Png ==
  /\ pc = "nii2png"
  /\ png' = nii2png(nii.file, nii.options)
  /\ pc' = "done"
  /\ UNCHANGED <<dir, seriesList, datasets, asmOut, multiframe, niftiOut, nii, winVars, runVars, dcmVars>>

NextPng == Nii2Png

SpecPng == InitPng /\ [][NextPng]_vars

(***************************************************************************)
(* Claims on SliceRasterizer, checked under SpecPng                        *)
(***************************************************************************)
Done == pc = "done"
\* options.slice is a number
SliceIsNumber == ~nii.options.sliceIsNaN
PngWritten == Done /\ png.status = "written"

\* the axis selected by options.dim, 1 = x, 2 = y, 3 = z, when it is one
AxisChosen == DimIndex(nii.options.dim)
AxisValid == AxisChosen \in {1, 2, 3}
AxisSize == nii.file.dims[AxisChosen + 1]
SliceInRange == nii.options.slice >= 0 /\ nii.options.slice < AxisSize

\* C13: along a valid axis, nii2png fails with the out-of-range error
\* exactly for the integer indices outside [0, size of that axis), and an
\* index inside the range (0 and size - 1 included) of a volume of a
\* supported data type is extracted and written
C13_SliceRange ==
  (Done /\ AxisValid /\ SliceIsNumber) =>
    /\ ~SliceInRange <=> (png.status = "failed" /\ png.error = "out of range")
    /\ (SliceInRange /\ nii.file.datatypeCode \in SupportedTypes)
         => png.status = "written"

\* C13 witness: index 1 along an x axis of size 1 was refused although the
\* two other axes have size 2
C13_Witness ==
  /\ Done /\ AxisChosen = 1
  /\ nii.file.dims = <<3, 1, 2, 2, 1, 1, 1, 1>>
  /\ nii.options.slice = 1
  /\ png.status = "failed" /\ png.error = "out of range"

\* samples per voxel of the volume, and channel c of voxel (x, y, z)
Stride == IF nii.file.datatypeCode = TYPE_RGB24 THEN 3 ELSE 1
Voxel(x, y, z, c) ==
  LET nx == nii.file.dims[2]
      ny == nii.file.dims[3]
  IN nii.file.typedArray[(x + y * nx + z * nx * ny) * Stride + c + 1]

\* channel c of the sample at column u, row v of the extracted plane
PlaneSample(u, v, c) == png.plane[(v * png.width + u) * Stride + c + 1]

OutputPixel(r, c) ==
  SubSeq(png.raster.data, 4 * (r * png.width + c) + 1, 4 * (r * png.width + c) + 4)

\* the plane's scalar samples as normalizeToUint8 returns them
NormalizedPlane ==
  normalizeToUint8([i \in 1..Len(png.plane) |-> Fround(png.plane[i])],
                   SeqMin(png.plane), SeqMax(png.plane))

\* <<R, G, B>> the plane sample at column u, row v gives
ColourOfSample(u, v) ==
  IF Stride = 3
    THEN <<PlaneSample(u, v, 0), PlaneSample(u, v, 1), PlaneSample(u, v, 2)>>
    ELSE LET value == NormalizedPlane[v * png.width + u + 1]
         IN <<value, value, value>>

\* C15: the raster is the plane flipped vertically and not horizontally:
\* output pixel (r, c) has the colour of plane sample (c, height - 1 - r)
\* and alpha 255, and every output pixel is stored exactly once, on the
\* scalar and on the RGB path
C15_VerticalFlip ==
  PngWritten =>
    /\ Len(png.raster.data) = 4 * png.width * png.height
    /\ \A r \in 0..(png.height - 1), c \in 0..(png.width - 1) :
         /\ OutputPixel(r, c) = ColourOfSample(c, png.height - 1 - r) \o <<255>>
         /\ png.raster.writes[r * png.width + c + 1] = 1

\* C15 witness: a scalar plane two rows high and two columns wide, with four
\* different colours, was written
C15_Witness ==
  /\ PngWritten /\ Stride = 1
  /\ png.width = 2 /\ png.height = 2
  /\ Cardinality({OutputPixel(r, c) : r \in 0..1, c \in 0..1}) = 4

\* the grey level written for the plane sample at column u, row v
GreyOfSample(u, v) == OutputPixel(png.height - 1 - v, u)[1]

\* C16: on the scalar path the sample v of the plane is written as
\* round((v - min) / (max - min or 1) * 255), min and max taken over the
\* plane: a value in [0, 255], 0 for min, 255 for max when max > min, and 0
\* for every sample of a plane whose samples are all equal
C16_ScalarNormalization ==
  (PngWritten /\ Stride = 1) =>
    LET min == SeqMin(png.plane)
        max == SeqMax(png.plane)
        range == IF max = min THEN 1 ELSE max - min
    IN \A u \in 0..(png.width - 1), v \in 0..(png.height - 1) :
         LET sample == PlaneSample(u, v, 0)
             grey == GreyOfSample(u, v)
         IN /\ grey = RoundDiv((sample - min) * 255, range)
            /\ grey >= 0 /\ grey <= 255
            /\ sample = min => grey = 0
            /\ (sample = max /\ max > min) => grey = 255

(***************************************************************************)
(* WindowEstimator: calculateOptimalWindowLevel (src/src/dcm2png)          *)
(***************************************************************************)
ScaleFactor == 16      \* pixelValues.push(value * 16)
EnoughPixels == 1000   \* pixelValues.length > 1000

\* pixelValues: the non-zero pixels in order, scaled
RECURSIVE SelectNonZero(_, _, _)
SelectNonZero(s, lo, hi) ==
  IF lo > hi THEN <<>>
  ELSE IF lo = hi THEN (IF s[lo] > 0 THEN <<s[lo] * ScaleFactor>> ELSE <<>>)
  ELSE LET mid == (lo + hi) \div 2
       IN SelectNonZero(s, lo, mid) \o SelectNonZero(s, mid + 1, hi)

PixelValues(testPixels) == SelectNonZero(testPixels, 1, Len(testPixels))

\* pixelValues.sort((a, b) => a - b): the values in ascending order, each as
\* many times as it occurs
CountOf(s, v) == Cardinality({i \in 1..Len(s) : s[i] = v})

RECURSIVE AscendingRuns(_, _)
AscendingRuns(s, values) ==
  IF values = {} THEN <<>>
  ELSE LET least == CHOOSE v \in values : \A w \in values : v <= w
       IN [i \in 1..CountOf(s, least) |-> least]
            \o AscendingRuns(s, values \ {least})

SortAscending(s) == AscendingRuns(s, Range(s))

\* Math.floor(length * 0.02) and Math.floor(length * 0.98)
P2Index(length) == (length * 2) \div 100
P98Index(length) == (length * 98) \div 100

\* new WindowLevel(windowWidth, windowCenter)
WindowLevel(windowWidth, windowCenter) ==
  [status |-> "window", width |-> windowWidth, center |-> windowCenter]

\* if (pixelValues.length > 1000)
Enough(n) == n > EnoughPixels

\* (a * 1.2) and (a * 1.5) for the multiples of 10 the pixel values differ by
TimesTenths(a, tenths) == (a * tenths) \div 10

calculateOptimalWindowLevel(testPixels) ==
  LET pixelValues == PixelValues(testPixels)
  IN IF Enough(Len(pixelValues))
       THEN LET sorted == SortAscending(pixelValues)
                p2Val == sorted[P2Index(Len(sorted)) + 1]
                p98Val == sorted[P98Index(Len(sorted)) + 1]
            IN WindowLevel(TimesTenths(p98Val - p2Val, 12), (p98Val + p2Val) \div 2)
     ELSE IF Len(pixelValues) > 0
       THEN LET minVal == SeqMin(pixelValues)
                maxVal == SeqMax(pixelValues)
            IN WindowLevel(TimesTenths(maxVal - minVal, 15), (maxVal + minVal) \div 2)
     ELSE [status |-> "null"]

(***************************************************************************)
(* SpecWin: the window of one test rendering is computed                   *)
(***************************************************************************)
MaxBackground == 3    \* zero pixels of a rendering that has some

Run(v, n) == [i \in 1..n |-> v]

\* How many dark (10), medium (100) and bright (200) pixels a rendering has:
\* none, one, and counts that put the population just below, at and just
\* above EnoughPixels and the percentile indexes on either side of a run
DarkCounts == {0, 1, 20, 21}
MediumCounts == {0} \cup ((EnoughPixels - 42)..(EnoughPixels - 39))
                    \cup {EnoughPixels + 1}
BrightCounts == {0, 1, 20, 21}

InitWin ==
  /\ pc = "window"
  /\ dir = <<>>
  /\ seriesList = <<>>
  /\ datasets = NoDatasets
  /\ asmOut = NoOutcome
  /\ multiframe = NoOutcome
  /\ niftiOut = NoOutcome
  /\ IdlePng
  /\ \E z \in {0, MaxBackground}, a \in DarkCounts, b \in MediumCounts,
        c \in BrightCounts, brightFirst \in BOOLEAN :
       testRender =
         IF brightFirst
           THEN Run(200, c) \o Run(0, z) \o Run(100, b) \o Run(10, a)
           ELSE Run(0, z) \o Run(10, a) \o Run(100, b) \o Run(200, c)
  /\ window = NoOutcome
  /\ IdleRun
  /\ IdleDcm

Window ==
  /\ pc = "window"
  /\ window' = calculateOptimalWindowLevel(testRender)
  /\ pc' = "windowed"
  /\ UNCHANGED <<dir, seriesList, datasets, asmOut, multiframe, niftiOut,
                 pngVars, testRender, runVars, dcmVars>>

NextWin == Window

SpecWin == InitWin /\ [][NextWin]_vars

(***************************************************************************)
(* Claims on WindowEstimator, checked under SpecWin                        *)
(***************************************************************************)
Windowed == pc = "windowed"

\* P: the positions of the non-zero samples, and sample i as it is counted
Population == {i \in 1..Len(testRender) : testRender[i] # 0}
Sample(i) == testRender[i] * ScaleFactor

\* the value at index k (from 0) of P sorted ascending
KthSmallest(k) ==
  CHOOSE v \in {Sample(i) : i \in Population} :
    /\ Cardinality({i \in Population : Sample(i) < v}) <= k
    /\ Cardinality({i \in Population : Sample(i) <= v}) > k

PopulationMin == CHOOSE v \in {Sample(i) : i \in Population} :
                   \A i \in Population : v <= Sample(i)
PopulationMax == CHOOSE v \in {Sample(i) : i \in Population} :
                   \A i \in Population : v >= Sample(i)

\* C17: with n the number of non-zero samples, the window is null for
\* n = 0; width (p98 - p2) x 1.2 and center (p98 + p2) / 2 for n >= 1000;
\* width (max - min) x 1.5 and center (max + min) / 2 for 0 < n < 1000
C17_WindowReference ==
  Windowed =>
    LET n == Cardinality(Population)
    IN IF n = 0 THEN window.status = "null"
       ELSE IF n >= 1000
         THEN LET p2 == KthSmallest((n * 2) \div 100)
                  p98 == KthSmallest((n * 98) \div 100)
              IN /\ window.status = "window"
                 /\ 10 * window.width = (p98 - p2) * 12
                 /\ 2 * window.center = p98 + p2
         ELSE /\ window.status = "window"
              /\ 10 * window.width = (PopulationMax - PopulationMin) * 15
              /\ 2 * window.center = PopulationMax + PopulationMin

\* C18: every window that is not null has a width above 0
C18_PositiveWidth ==
  (Windowed /\ window.status = "window") => window.width > 0

(***************************************************************************)
(* ConversionRun: the order of build, write and error handling in dcm2nii, *)
(* nii2png and dcm2png. A unit is a series of a directory run or the one   *)
(* input of a single-file invocation.                                      *)
(***************************************************************************)
MaxSeries == 2    \* series of a directory run

RunKinds == {"dcm2nii-dir", "dcm2nii-file", "nii2png", "dcm2png"}

\* The statements that can throw while the output buffer of a unit is built
\* and its path chosen, all of them ahead of writeFileSync
BuildStages(kind) ==
  CASE kind \in {"dcm2nii-dir", "dcm2nii-file"} ->
         {"read", "assemble", "encode", "path"}
    [] kind = "nii2png" -> {"read", "parse", "validate", "extract", "encode"}
    [] kind = "dcm2png" -> {"read", "decode", "render", "format", "encode"}

\* writeFileSync can throw before it touches the file, or after it has
\* created or truncated it
WriteFaults == {"write-refused", "write-partial"}

\* the statement of a unit's conversion that throws, if any
FaultsOf(kind) == {"none"} \cup BuildStages(kind) \cup WriteFaults

\* SeriesDescription ("" when the tag is missing) and SeriesNumber (0 when
\* missing) of a series; two series of a directory can carry the same
SeriesIdentities ==
  { [seriesDescription |-> "", seriesNumber |-> 0],
    [seriesDescription |-> "", seriesNumber |-> 1],
    [seriesDescription |-> "T1 ax", seriesNumber |-> 5] }

NoSeries == [seriesDescription |-> "", seriesNumber |-> 0]

\* the -o argument: absent, an existing directory, a path that does not
\* exist and has no .nii suffix, a path ending in .nii
OutputOptions ==
  { [text |-> "", isDirectory |-> FALSE, endsWithNii |-> FALSE],
    [text |-> "outdir", isDirectory |-> TRUE, endsWithNii |-> FALSE],
    [text |-> "new", isDirectory |-> FALSE, endsWithNii |-> FALSE],
    [text |-> "out.nii", isDirectory |-> FALSE, endsWithNii |-> TRUE] }

\* the input directory of a directory run, the directory and the base name
\* of the input file of a single-file run
InputDir == "in"
InputBaseName == "scan"

\* `${n}` for the series numbers and indices of the model
NumberText(n) ==
  CASE n = 0 -> "0" [] n = 1 -> "1" [] n = 2 -> "2" [] n = 3 -> "3"
    [] n = 4 -> "4" [] n = 5 -> "5"

\* seriesDesc.replace(/[^a-zA-Z0-9_-]/g, "_") on the descriptions of the model
CleanDescription(seriesDesc) ==
  CASE seriesDesc = "T1 ax" -> "T1_ax"
    [] OTHER -> seriesDesc

\* series.seriesDescription || `series_${series.seriesNumber || seriesIndex || 0}`
SeriesDesc(series, seriesIndex) ==
  IF series.seriesDescription # "" THEN series.seriesDescription
  ELSE "series_" \o NumberText(OrDefault(series.seriesNumber,
                                         OrDefault(seriesIndex, 0)))

JoinPath(directory, name) == directory \o "/" \o name

\* The path of the output file. hasSeries: the call passes a series and its
\* index (directory run); otherwise the name comes from the input file.
generateOutputPath(outputPath, hasSeries, series, seriesIndex) ==
  LET name == IF hasSeries
                THEN CleanDescription(SeriesDesc(series, seriesIndex)) \o ".nii"
                ELSE InputBaseName \o ".nii"
  IN IF outputPath.text # ""
       THEN IF outputPath.isDirectory THEN JoinPath(outputPath.text, name)
            ELSE IF outputPath.endsWithNii THEN outputPath.text
            ELSE outputPath.text \o ".nii"
       ELSE JoinPath(InputDir, name)

\* the -o argument of nii2png and dcm2png is the output file itself
PngPath == "out.png"

\* every path an invocation of the model can write to
OutputPaths ==
  {PngPath}
    \cup {generateOutputPath(o, FALSE, NoSeries, 0) : o \in OutputOptions}
    \cup {generateOutputPath(o, TRUE, id, i) :
            o \in OutputOptions, id \in SeriesIdentities, i \in 0..(MaxSeries - 1)}

\* the files that exist before the invocation
ExistingPaths == {"out.nii", "out.png", "in/T1_ax.nii"}

\* a unit: the series it converts, where its output goes and the statement
\* of its conversion that throws, if any
Unit(series, path, fault) ==
  [ seriesDescription |-> series.seriesDescription,
    seriesNumber |-> series.seriesNumber,
    path |-> path, fault |-> fault ]

\* the units of an invocation: the series of the directory in list order,
\* or the one input file
UnitsOf(kind, output, n) ==
  CASE kind = "dcm2nii-dir" ->
         { [i \in 1..n |->
              Unit(ids[i], generateOutputPath(output, TRUE, ids[i], i - 1), faults[i])] :
             ids \in [1..n -> SeriesIdentities],
             faults \in [1..n -> FaultsOf(kind)] }
    [] kind = "dcm2nii-file" ->
         { <<Unit(NoSeries, generateOutputPath(output, FALSE, NoSeries, 0), fault)>> :
             fault \in FaultsOf(kind) }
    [] OTHER ->
         { <<Unit(NoSeries, PngPath, fault)>> : fault \in FaultsOf(kind) }

\* what dcm2nii finds in an input directory
FoundIn(n) == IF n = 0 THEN {"no files", "no series"} ELSE {"series"}

\* A mutant of the CLI action: the error is reported and the status stays 0
ExitStatusIgnoringErrors(threw) == 0

\* the exit status the CLI action leaves: process.exit(1) in its catch block
ExitStatus(threw) == IF threw THEN 1 ELSE 0

\* the message of the error dcm2nii throws at the end of a directory run,
\* "" when it returns
DirectoryError(found, outputPaths) ==
  CASE found = "no files" -> "No DICOM files found in directory"
    [] found = "no series" -> "No valid DICOM series found"
    [] outputPaths = <<>> -> "Failed to convert any DICOM series to NIFTI"
    [] OTHER -> ""

\* the message of the error a single-file invocation throws, "" when none
SingleFileError(kind, threw) ==
  CASE ~threw -> ""
    [] kind = "dcm2nii-file" -> "Failed to convert DICOM file to NIFTI"
    [] OTHER -> "Error"

\* A mutant of the try block: the file is opened before the buffer is built
TryBlockWritingEarly(kind, unit) ==
  [ threw |-> unit.fault # "none",
    wrote |-> CASE unit.fault = "none" -> "full"
                [] unit.fault = "write-refused" -> "nothing"
                [] OTHER -> "partial" ]

\* The statements of a unit up to and including writeFileSync: whether they
\* throw, and what they leave in the output file
TryBlock(kind, unit) ==
  [ threw |-> unit.fault # "none",
    wrote |-> CASE unit.fault = "none" -> "full"
                [] unit.fault = "write-partial" -> "partial"
                [] OTHER -> "nothing" ]

\* the file system after unit i has run its try block
AfterWrite(files, i, unit, wrote) ==
  IF wrote = "nothing" THEN files
  ELSE [ content |-> [files.content EXCEPT ![unit.path] = [by |-> i, holds |-> wrote]],
         log |-> Append(files.log, [by |-> i, path |-> unit.path, holds |-> wrote]) ]

\* A mutant of the loop: an error ends it
AfterAttemptAborting(i, threw, n) == IF threw THEN n ELSE i + 1

\* for (...; i++) around try/catch: the catch block only reports
AfterAttempt(i, threw, n) == i + 1

\* the units attempted, reported as failed and counted as converted so far
StartOf(kind, output, found, units) ==
  [ kind |-> kind, output |-> output, found |-> found, units |-> units, i |-> 0,
    attempted |-> <<>>, errors |-> <<>>, outputPaths |-> <<>>,
    converted |-> <<>>, status |-> "running", message |-> "", exitCode |-> -1 ]

\* the invocation has ended: the error thrown, if any, reaches the catch
\* block of the CLI action
EndOf(state, message) ==
  [ state EXCEPT !.status = IF message # "" THEN "failed" ELSE "ok",
                 !.message = message,
                 !.exitCode = ExitStatus(message # "") ]

AttemptOf(state, t) ==
  LET n == Len(state.units)
      unitNo == state.i + 1
  IN [ state EXCEPT
         !.attempted = Append(@, unitNo),
         !.errors = IF t.threw THEN Append(@, unitNo) ELSE @,
         !.outputPaths = IF t.threw THEN @ ELSE Append(@, state.units[unitNo].path),
         !.converted = IF t.threw THEN @ ELSE Append(@, unitNo),
         !.i = AfterAttempt(state.i, t.threw, n) ]

(***************************************************************************)
(* SpecRun: one invocation of a converter                                  *)
(***************************************************************************)
InitRun ==
  /\ pc = "run"
  /\ dir = <<>>
  /\ seriesList = <<>>
  /\ datasets = NoDatasets
  /\ asmOut = NoOutcome
  /\ multiframe = NoOutcome
  /\ niftiOut = NoOutcome
  /\ IdlePng
  /\ IdleWin
  /\ IdleDcm
  /\ \E kind \in RunKinds :
       \E n \in (IF kind = "dcm2nii-dir" THEN 0..MaxSeries ELSE {1}),
          output \in (IF kind \in {"dcm2nii-dir", "dcm2nii-file"}
                        THEN OutputOptions
                        ELSE {[text |-> PngPath, isDirectory |-> FALSE,
                               endsWithNii |-> FALSE]}) :
         \E units \in UnitsOf(kind, output, n), found \in FoundIn(n) :
           run = StartOf(kind, output, found, units)
  /\ fs = [ content |-> [p \in OutputPaths |->
                           [by |-> 0, holds |-> IF p \in ExistingPaths
                                                 THEN "old" ELSE "absent"]],
            log |-> <<>> ]

\* one pass of the loop of dcm2nii over seriesList
AttemptSeries ==
  /\ pc = "run" /\ run.kind = "dcm2nii-dir"
  /\ run.i < Len(run.units)
  /\ LET unit == run.units[run.i + 1]
         t == TryBlock(run.kind, unit)
     IN /\ run' = AttemptOf(run, t)
        /\ fs' = AfterWrite(fs, run.i + 1, unit, t.wrote)
  /\ UNCHANGED <<pc, dir, seriesList, datasets, asmOut, multiframe, niftiOut,
                 pngVars, winVars, dcmVars>>

\* the end of a directory run: dcm2nii throws when the directory holds no
\* DICOM file or no series and, after the loop, when no series was
\* converted
FinishRun ==
  /\ pc = "run" /\ run.kind = "dcm2nii-dir"
  /\ run.i >= Len(run.units)
  /\ run' = EndOf(run, DirectoryError(run.found, run.outputPaths))
  /\ pc' = "done"
  /\ UNCHANGED <<dir, seriesList, datasets, asmOut, multiframe, niftiOut,
                 pngVars, winVars, fs, dcmVars>>

\* a single-file invocation: its error reaches the caller
SingleRun(kind) ==
  /\ pc = "run" /\ run.kind = kind
  /\ LET unit == run.units[1]
         t == TryBlock(kind, unit)
     IN /\ run' = EndOf(AttemptOf(run, t), SingleFileError(kind, t.threw))
        /\ fs' = AfterWrite(fs, 1, unit, t.wrote)
  /\ pc' = "done"
  /\ UNCHANGED <<dir, seriesList, datasets, asmOut, multiframe, niftiOut,
                 pngVars, winVars, dcmVars>>

Dcm2NiiFile == SingleRun("dcm2nii-file")
Nii2PngFile == SingleRun("nii2png")
Dcm2PngFile == SingleRun("dcm2png")

NextRun ==
  \/ AttemptSeries
  \/ FinishRun
  \/ Dcm2NiiFile
  \/ Nii2PngFile
  \/ Dcm2PngFile

SpecRun == InitRun /\ [][NextRun]_vars

\* the invocation is a sequential program: it keeps running until it ends
SpecRunLive == SpecRun /\ WF_vars(NextRun)

(***************************************************************************)
(* Claims on ConversionRun                                                 *)
(***************************************************************************)
\* the series attempted so far are the first ones, each once, in order
AttemptedInOrder ==
  /\ Len(run.attempted) <= Len(run.units)
  /\ run.attempted = [k \in 1..Len(run.attempted) |-> k]

RunEnded == pc = "done"

\* C19: in a directory run the series are attempted one at a time in the
\* order of the list, each once, whatever the failures of the ones before,
\* and the run ends after the last one
C19_EverySeriesAttempted ==
  /\ [](AttemptedInOrder /\ (RunEnded => Len(run.attempted) = Len(run.units)))
  /\ <>RunEnded

\* C19 witness: a directory run ended with both series attempted in order,
\* the first failed while it was assembled and the second written
C19_Witness ==
  /\ RunEnded /\ run.kind = "dcm2nii-dir"
  /\ Len(run.units) = 2
  /\ run.units[1].fault = "assemble"
  /\ run.attempted = <<1, 2>>
  /\ run.errors = <<1>> /\ run.converted = <<2>>

\* the units whose conversion threw before writeFileSync was called
FailedBeforeWrite ==
  {u \in 1..Len(run.units) : run.units[u].fault \in BuildStages(run.kind)}

BytesPerTimepoint == FrameCount(datasets[1]) * BytesPerPixelFrame

\* C24: in the volume assembled from records of one common frameCount > 1,
\* the buffer is recordCount x frameCount x bytesPerPixelFrame bytes long
\* and record k (from 0) fills exactly the bytes [k x frameCount x
\* bytesPerPixelFrame, (k+1) x frameCount x bytesPerPixelFrame) with its
\* pixel bytes, cut or zero-padded to that size, also when another record
\* has no pixel data or pixel data of an unexpected shape
C24_RecordFillsOwnTimeSlot ==
  (Written /\ UniformMultiFrame) =>
    /\ Len(VolumeData) = RecordCount * BytesPerTimepoint
    /\ \A k \in 1..RecordCount :
         datasets[k].PixelData.kind = "frames" =>
           /\ Len(VolumeData) >= k * BytesPerTimepoint
           /\ SubSeq(VolumeData, (k - 1) * BytesPerTimepoint + 1,
                     k * BytesPerTimepoint)
                = FitTo(RecordBytes(k), BytesPerTimepoint)

\* the header fields read back from the file written for the series
WrittenHeader == DecodeHeader(asmOut.file)

\* the spacing of the series: pixelSpacing[0], pixelSpacing[1] and
\* sliceThickness of the first record, 1 where the record has none
FirstSpacing ==
  LET first == datasets[1]
      has == first.PixelSpacing # <<>>
  IN << IF has /\ first.PixelSpacing[1] # 0 THEN first.PixelSpacing[1] ELSE 1,
        IF has /\ first.PixelSpacing[2] # 0 THEN first.PixelSpacing[2] ELSE 1,
        IF first.SliceThickness # 0 THEN first.SliceThickness ELSE 1 >>

\* C25: the header written for a series takes its geometry from the first
\* record whatever the later records carry: pixdim entries 1..3 are the
\* first record's pixelSpacing[0], pixelSpacing[1] and sliceThickness (1
\* where absent), pixdim entries 4..7 are 1, and srow_x, srow_y, srow_z
\* are the rows of the diagonal matrix with those three values and a zero
\* translation column
C25_FirstRecordGeometry ==
  Written =>
    LET h == WrittenHeader
        sp == FirstSpacing
    IN /\ \A i \in 1..3 : h.pixdim[i + 1] = sp[i]
       /\ \A i \in 4..7 : h.pixdim[i + 1] = 1
       /\ h.srow_x = <<sp[1], 0, 0, 0>>
       /\ h.srow_y = <<0, sp[2], 0, 0>>
       /\ h.srow_z = <<0, 0, sp[3], 0>>

\* a series whose second record carries another spacing than the first
C25_Witness ==
  /\ Written
  /\ RecordCount >= 2
  /\ datasets[1].PixelSpacing = <<2, 3>>
  /\ datasets[2].PixelSpacing = <<7, 9>>
  /\ datasets[2].SliceThickness # datasets[1].SliceThickness
  /\ WrittenHeader.pixdim[2] = 2

\* the bytes of the written file after the 352-byte header
WrittenPayload == SubSeq(asmOut.file, HeaderSize + 1, Len(asmOut.file))

\* C27: every file written declares data type INT16 (code 4), 16 bits per
\* sample, scale slope 1 and intercept 0, whatever BitsAllocated and
\* SamplesPerPixel the records carry, and its payload is the assembled
\* pixel buffer byte for byte
C27_FixedSampleType ==
  Written =>
    /\ WrittenHeader.datatype = 4
    /\ WrittenHeader.bitpix = 16
    /\ WrittenHeader.scl_slope = 1
    /\ WrittenHeader.scl_inter = 0
    /\ WrittenPayload = asmOut.multiframe.PixelData.data

\* a file written for records of 8 bits allocated with a payload
C27_Witness ==
  /\ Written
  /\ datasets[1].BitsAllocated = 8
  /\ WrittenPayload # <<>>
  /\ \E i \in 1..Len(WrittenPayload) : WrittenPayload[i] # 0
  /\ WrittenHeader.bitpix = 16

(***************************************************************************)
(* Further claims on VolumetricHeaderCodec, checked under SpecHdr          *)
(***************************************************************************)
\* The same axis sizes, spacing and payload as mf, each given explicitly:
\* no tag left to its default, the payload as one ArrayBuffer
SameLogicalInput(mf) ==
  LET dims == NiftiDims(mf)
      spacing == SpacingOrDefault(mf)
  IN [ Rows |-> mf.Rows, Columns |-> mf.Columns,
       NumberOfFrames |-> IF dims[1] = 4 THEN dims[4] * dims[5] ELSE dims[4],
       NumberOfSlices |-> IF dims[1] = 4 THEN dims[4] ELSE 0,
       NumberOfTemporalPositions |-> IF dims[1] = 4 THEN dims[5] ELSE 1,
       PixelSpacing |-> << IF spacing[1] = 0 THEN 1 ELSE spacing[1],
                           IF spacing[2] = 0 THEN 1 ELSE spacing[2] >>,
       SliceThickness |-> IF mf.SliceThickness = 0 THEN 1 ELSE mf.SliceThickness,
       PixelData |-> PixelData("buffer", InputPayload(mf)) ]

\* the first 352 bytes of an encoded buffer
HeaderPrefix(buffer) == SubSeq(buffer, 1, HeaderSize)

\* C26: the 352-byte prefix depends on the logical input only (the same
\* axis sizes, spacing and payload given in another form encode to the
\* same bytes), and every header byte no field value covers is zero:
\* data_type (4..13), db_name (14..31), the descrip bytes after the text
\* (172..227), aux_file (228..251), intent_name (328..343) and the gap
\* between the header and the payload (348..351)
C26_DeterministicZeroFilled ==
  Encoded =>
    LET buffer == niftiOut.buffer
        again == createNiftiFromMultiframe(SameLogicalInput(multiframe))
    IN /\ again.status = "ok"
       /\ HeaderPrefix(again.buffer) = HeaderPrefix(buffer)
       /\ again.buffer = buffer
       /\ SubSeq(buffer, 5, 32) = [i \in 1..28 |-> 0]
       /\ SubSeq(buffer, 149, 148 + Len(DescripText)) = DescripText
       /\ SubSeq(buffer, 149 + Len(DescripText), 228) = [i \in 1..56 |-> 0]
       /\ SubSeq(buffer, 229, 252) = [i \in 1..24 |-> 0]
       /\ SubSeq(buffer, 329, 344) = [i \in 1..16 |-> 0]
       /\ SubSeq(buffer, 349, 352) = [i \in 1..4 |-> 0]

\* a buffer encoded from an input that leaves tags to their defaults and
\* hands its payload over as an Array of numbers
C26_Witness ==
  /\ Encoded
  /\ multiframe.PixelSpacing = <<>>
  /\ multiframe.SliceThickness = 0
  /\ multiframe.NumberOfFrames = 0
  /\ multiframe.PixelData.kind = "array"
  /\ Len(niftiOut.buffer) > HeaderSize
  /\ SameLogicalInput(multiframe) # multiframe

(***************************************************************************)
(* Further claims on SliceRasterizer, checked under SpecPng                *)
(***************************************************************************)
\* the element indices the extraction loops compute for the written plane:
\* index for a scalar volume, index, index + 1 and index + 2 for RGB
ElementsRead ==
  {SourceIndex(AxisChosen, nii.options.slice, a, b,
               nii.file.dims[2], nii.file.dims[3], Stride) + c :
     a \in 0..(png.width - 1), b \in 0..(png.height - 1), c \in 0..(Stride - 1)}

C30_WritesOnlyForValidArguments ==
  Done =>
    /\ png.status = "written" =>
         (AxisValid /\ SliceIsNumber /\ SliceInRange)
    /\ ~(AxisValid /\ SliceIsNumber /\ SliceInRange) => png.status = "failed"

(***************************************************************************)
(* Further claims on ConversionRun, checked under SpecRun                  *)
(***************************************************************************)
DirectoryRunEnded == RunEnded /\ run.kind = "dcm2nii-dir"

\* C22: dcm2nii ends with exit status 1 and an error message for a
\* directory without DICOM files, a directory without a valid series, a
\* directory whose every series failed, and a failing single-file
\* conversion, and with status 0 and no error otherwise; a directory run
\* is an error exactly when no series was converted
C22_ExitStatus ==
  (RunEnded /\ run.kind \in {"dcm2nii-dir", "dcm2nii-file"}) =>
    /\ run.exitCode \in {0, 1}
    /\ run.exitCode = 1 <=> run.message # ""
    /\ run.kind = "dcm2nii-dir" =>
         /\ run.exitCode = 1 <=> run.converted = <<>>
         /\ run.found \in {"no files", "no series"} => run.exitCode = 1
         /\ (\A u \in 1..Len(run.units) : run.units[u].fault # "none")
              => run.exitCode = 1
    /\ run.kind = "dcm2nii-file" =>
         (run.exitCode = 1 <=> run.units[1].fault # "none")

\* a directory run of two series ended with status 0 although the first
\* series failed, and another one ended with status 1
C22_Witness ==
  /\ DirectoryRunEnded
  /\ Len(run.units) = 2
  /\ run.units[1].fault = "assemble" /\ run.units[2].fault = "none"
  /\ run.errors = <<1>> /\ run.converted = <<2>>
  /\ run.exitCode = 0 /\ run.message = ""

\* the files this run has written in full
FilesWritten ==
  {fs.log[k].path : k \in {j \in 1..Len(fs.log) : fs.log[j].holds = "full"}}

\* C28: in a directory run the series converted have pairwise different
\* output paths, whatever the -o argument and the descriptions, and the
\* run leaves as many files as it reports series converted
C28_DistinctOutputPaths ==
  DirectoryRunEnded =>
    /\ \A c, d \in 1..Len(run.outputPaths) :
         c # d => run.outputPaths[c] # run.outputPaths[d]
    /\ Cardinality(FilesWritten) = Len(run.converted)

(***************************************************************************)
(* FrameRenderer: dcm2png (src/src/dcm2png/dcm2png.ts)                     *)
(*                                                                         *)
(* The input is a directory, file name -> entry, or one file. A file name  *)
(* is a number, ordered as .sort() orders the names. An entry is a record  *)
(*   isDicom   it is a regular file with extension .dcm, .dicom or none    *)
(*   frames    the number of frames of the image in it                     *)
(* options.slice is undefined, a number, or NaN (parseInt of a text that   *)
(* is no number).                                                          *)
(***************************************************************************)
MaxDcmFrames == 2    \* frames of a DICOM image

DcmEntries ==
  {[isDicom |-> FALSE, frames |-> 1]}
    \cup {[isDicom |-> TRUE, frames |-> f] : f \in 1..MaxDcmFrames}

DcmDirectories == UNION { [1..n -> DcmEntries] : n \in 0..MaxFiles }

SliceArguments ==
  {[kind |-> "undefined", value |-> 0], [kind |-> "NaN", value |-> 0]}
    \cup {[kind |-> "number", value |-> v] : v \in (-1)..(MaxFiles + 1)}

\* readdirSync, the isFile/isDicomFile filter, and .sort() of dcm2png.ts
DcmFilesFromDirectory(d) == SortedSeqOf({f \in DOMAIN d : d[f].isDicom})

\* options.slice ?? 0
SliceOrZero(slice) ==
  IF slice.kind = "undefined" THEN [kind |-> "number", value |-> 0] ELSE slice

\* a comparison of JavaScript: false when the left operand is NaN
LessThan(a, n) == a.kind = "number" /\ a.value < n
AtLeast(a, n) == a.kind = "number" /\ a.value >= n
GreaterThanZero(a) == a.kind = "number" /\ a.value > 0

\* A mutant of the selection: the files are counted from the end of the list
SelectedFileFromEnd(dicomFiles, sliceIndex) ==
  dicomFiles[Len(dicomFiles) - sliceIndex]

\* dicomFiles[sliceIndex]
SelectedFile(dicomFiles, sliceIndex) == dicomFiles[sliceIndex + 1]

\* image.render(renderingOptions) of an image of the given number of
\* frames: without a frame option it renders frame 0, and it throws for a
\* frame the image does not have
Render(frames, hasFrame, frame) ==
  IF ~hasFrame THEN [ok |-> TRUE, frame |-> 0]
  ELSE IF frame >= 0 /\ frame < frames THEN [ok |-> TRUE, frame |-> frame]
  ELSE [ok |-> FALSE, frame |-> -1]

\* The rendering of dcm2png: with options.slice > 0 the frame is requested
\* and, when that throws, the image is rendered again without a frame;
\* otherwise frameIndex > 0 is false and no frame is requested
RenderSlice(frames, slice) ==
  IF slice.kind # "undefined" /\ GreaterThanZero(slice)
    THEN LET first == Render(frames, TRUE, slice.value)
         IN IF first.ok THEN [frame |-> first.frame, warned |-> FALSE]
            ELSE [frame |-> Render(frames, FALSE, 0).frame, warned |-> TRUE]
    ELSE [frame |-> Render(frames, FALSE, 0).frame, warned |-> FALSE]

\* the PNG of one rendered file is written to options.output
DcmWritten(file, reads, frames, slice) ==
  LET rendered == RenderSlice(frames, slice)
  IN [ status |-> "written", reads |-> reads, file |-> file,
       frame |-> rendered.frame, warned |-> rendered.warned, error |-> "" ]

DcmFailed(error) ==
  [ status |-> "failed", reads |-> <<>>, file |-> 0, frame |-> -1,
    warned |-> FALSE, error |-> error ]

\* dcm2png: the files read, the file and the frame the PNG shows
dcm2png(input) ==
  IF input.isDirectory
    THEN LET dicomFiles == DcmFilesFromDirectory(input.d)
             sliceIndex == SliceOrZero(input.slice)
         IN IF dicomFiles = <<>> THEN DcmFailed("No DICOM files found in directory")
            ELSE IF LessThan(sliceIndex, 0) \/ AtLeast(sliceIndex, Len(dicomFiles))
              THEN DcmFailed("out of range")
            ELSE IF sliceIndex.kind = "NaN"
              THEN DcmFailed("TypeError")      \* readFileSync(undefined)
            ELSE LET selectedFile == SelectedFile(dicomFiles, sliceIndex.value)
                 IN DcmWritten(selectedFile, <<selectedFile>>,
                               input.d[selectedFile].frames, input.slice)
    ELSE DcmWritten(1, <<1>>, input.d[1].frames, input.slice)

(***************************************************************************)
(* SpecDcm: one invocation of dcm2png                                      *)
(***************************************************************************)
InitDcm ==
  /\ pc = "dcm2png"
  /\ dir = <<>>
  /\ seriesList = <<>>
  /\ datasets = NoDatasets
  /\ asmOut = NoOutcome
  /\ multiframe = NoOutcome
  /\ niftiOut = NoOutcome
  /\ IdlePng
  /\ IdleWin
  /\ IdleRun
  /\ \E slice \in SliceArguments :
       \/ \E d \in DcmDirectories :
            dcmIn = [isDirectory |-> TRUE, d |-> d, slice |-> slice]
       \/ \E frames \in 1..MaxDcmFrames :
            dcmIn = [isDirectory |-> FALSE,
                     d |-> <<[isDicom |-> TRUE, frames |-> frames]>>,
                     slice |-> slice]
  /\ dcmOut = NoOutcome

Dcm2Png ==
  /\ pc = "dcm2png"
  /\ dcmOut' = dcm2png(dcmIn)
  /\ pc' = "done"
  /\ UNCHANGED <<dir, seriesList, datasets, asmOut, multiframe, niftiOut,
                 pngVars, winVars, runVars, dcmIn>>

NextDcm == Dcm2Png

SpecDcm == InitDcm /\ [][NextDcm]_vars

(***************************************************************************)
(* Claims on FrameRenderer, checked under SpecDcm                          *)
(***************************************************************************)
DcmDone == pc = "done"
SliceIsIndex == dcmIn.slice.kind = "number"

\* C21: for a single-file input of F frames and a frame index i, the PNG
\* shows frame i when 0 <= i < F, and for every other index the
\* conversion fails and writes no PNG; no other frame is rendered in
\* place of the one asked for
C21_FrameIndexChecked ==
  (DcmDone /\ ~dcmIn.isDirectory /\ SliceIsIndex) =>
    LET F == dcmIn.d[1].frames
        i == dcmIn.slice.value
    IN IF i >= 0 /\ i < F
         THEN dcmOut.status = "written" /\ dcmOut.frame = i
         ELSE dcmOut.status = "failed"

\* the DICOM files of the input directory, and the one with exactly k
\* DICOM files of a smaller name
DicomNames == {f \in DOMAIN dcmIn.d : dcmIn.d[f].isDicom}
KthDicomFile(k) ==
  CHOOSE f \in DicomNames : Cardinality({g \in DicomNames : g < f}) = k

====
